---- MODULE Spec2Model ----
(***************************************************************************)
(* GroSpace backend (src/backend/main.py): the obligation and alert        *)
(* derivation run by confirm-and-activate, and the payment period          *)
(* generator, over a store of outlets, agreements, obligations, alerts     *)
(* and payment records.                                                    *)
(*                                                                         *)
(* Representation.  Python None is NoDate (<<>>) for dates, NoNum for      *)
(* numbers and NoInt (<<>>) for optional integers (an integer n is <<n>>). *)
(* A key dropped by the "remove None values" filters reads back as None    *)
(* through dict.get, so a dropped key and a None value are the same here.  *)
(* Dates are <<year, month, day>>; an ISO string YYYY-MM-DD is the same    *)
(* triple (isoformat zero-pads, so string order is the triple's order).    *)
(* A call's outcome carries exc: "none" or the name of the exception that  *)
(* left the function.                                                      *)
(***************************************************************************)
EXTENDS Integers, Sequences, FiniteSets, TLC

VARIABLES
    today,            \* what date.today() returns
    req,              \* the ConfirmActivateRequest being served
    organizations,    \* table organizations, in insert order
    outlets,          \* table outlets, in insert order (id = position)
    agreements,       \* table agreements, in insert order (id = position)
    obligations,      \* table obligations, in insert order (id = position)
    alerts,           \* table alerts, in insert order
    payment_records,  \* table payment_records, in insert order
    resp,             \* outcome of the last completed request
    budget,           \* requests, day changes and payment updates already made
    gen               \* the calls in progress, one entry for each

vars == <<today, req, organizations, outlets, agreements, obligations, alerts,
          payment_records, resp, budget, gen>>

----------------------------------------------------------------------------
(* datetime.date, timedelta and dateutil.relativedelta *)

MINYEAR == 1
MAXYEAR == 9999

NoDate == <<>>
NoInt == <<>>

Min(a, b) == IF a <= b THEN a ELSE b

IsLeap(y) == (y % 4 = 0) /\ ((y % 100 # 0) \/ (y % 400 = 0))

DaysInMonth(y, m) ==
    IF m = 2 THEN (IF IsLeap(y) THEN 29 ELSE 28)
    ELSE IF m \in {4, 6, 9, 11} THEN 30 ELSE 31

DaysBeforeYear(y) ==
    LET p == y - 1 IN p * 365 + (p \div 4) - (p \div 100) + (p \div 400)

\* days of the year before the first of month m
DaysBeforeMonth(y, m) ==
    <<0, 31, 59, 90, 120, 151, 181, 212, 243, 273, 304, 334>>[m]
    + (IF m > 2 /\ IsLeap(y) THEN 1 ELSE 0)

\* date(y, m, d) raises ValueError unless this holds
ValidYMD(y, m, d) ==
    /\ MINYEAR <= y /\ y <= MAXYEAR
    /\ 1 <= m /\ m <= 12
    /\ 1 <= d /\ d <= DaysInMonth(y, m)

toordinal(d) == DaysBeforeYear(d[1]) + DaysBeforeMonth(d[1], d[2]) + d[3]

MaxOrdinal == toordinal(<<MAXYEAR, 12, 31>>)

fromordinal(n) ==
    LET n0   == n - 1
        n400 == n0 \div 146097
        r400 == n0 % 146097
        n100 == r400 \div 36524
        r100 == r400 % 36524
        n4   == r100 \div 1461
        r4   == r100 % 1461
        n1   == r4 \div 365
        r1   == r4 % 365
        year == n400 * 400 + 1 + n100 * 100 + n4 * 4 + n1
    IN  IF n1 = 4 \/ n100 = 4 THEN <<year - 1, 12, 31>>
        ELSE LET guess == (r1 + 50) \div 32
                 month == IF DaysBeforeMonth(year, guess) > r1 THEN guess - 1 ELSE guess
             IN  <<year, month, r1 - DaysBeforeMonth(year, month) + 1>>

\* d1 < d2 on dates (and on their ISO strings)
DateLT(d1, d2) == toordinal(d1) < toordinal(d2)
DateLE(d1, d2) == toordinal(d1) <= toordinal(d2)

Ok(v) == [exc |-> "none", val |-> v]
Raise(e) == [exc |-> e, val |-> NoDate]

\* d - timedelta(days=n): OverflowError ("date value out of range") outside
\* date.min .. date.max
SubDays(d, n) ==
    LET o == toordinal(d) - n
    IN  IF o < 1 \/ o > MaxOrdinal THEN Raise("OverflowError") ELSE Ok(fromordinal(o))

\* d + relativedelta(years=yy, months=mm): relativedelta normalises months to
\* sign * (|mm| mod 12) and carries sign * (|mm| div 12) into the years, adds,
\* wraps the month once, clamps the day to the month's length and builds the
\* date with date.replace, which raises ValueError for a year out of range
AddRel(d, yy, mm) ==
    LET s     == IF mm < 0 THEN -1 ELSE 1
        am    == s * mm
        mons  == s * (am % 12)
        yrs   == yy + s * (am \div 12)
        y0    == d[1] + yrs
        m0    == d[2] + mons
        year  == IF m0 > 12 THEN y0 + 1 ELSE IF m0 < 1 THEN y0 - 1 ELSE y0
        month == IF m0 > 12 THEN m0 - 12 ELSE IF m0 < 1 THEN m0 + 12 ELSE m0
    IN  IF year < MINYEAR \/ year > MAXYEAR THEN Raise("ValueError")
        ELSE Ok(<<year, month, Min(DaysInMonth(year, month), d[3])>>)

----------------------------------------------------------------------------
(* Python floats, as far as the handlers use them: a finite value is the   *)
(* fraction num/den in lowest terms, and there are nan, inf and -inf.      *)

RECURSIVE GCD(_, _)
GCD(a, b) == IF b = 0 THEN a ELSE GCD(b, a % b)

Abs(a) == IF a < 0 THEN -a ELSE a

NoNum == [k |-> "none", num |-> 0, den |-> 1]
NaN == [k |-> "nan", num |-> 0, den |-> 1]
Inf == [k |-> "inf", num |-> 1, den |-> 1]
NegInf == [k |-> "inf", num |-> -1, den |-> 1]

\* the outcome of a get_num call that did not return: float() raised
\* OverflowError, which get_num does not catch
Raised == [k |-> "raised", num |-> 0, den |-> 1]

Frac(n, d) ==
    LET g == GCD(Abs(n), d)
    IN  [k |-> "fin", num |-> n \div g, den |-> d \div g]

F(n) == Frac(n, 1)

\* bool(x) for x a float or None
Truthy(x) == x.k \in {"nan", "inf"} \/ (x.k = "fin" /\ x.num # 0)

\* x or y; y is not evaluated when x is truthy or x raised
OrElse(x, y) == IF x = Raised \/ Truthy(x) THEN x ELSE y

Sign(x) == IF x.num < 0 THEN -1 ELSE IF x.num > 0 THEN 1 ELSE 0

\* x * y on floats
Mul(x, y) ==
    IF x.k = "nan" \/ y.k = "nan" THEN NaN
    ELSE IF x.k = "inf" \/ y.k = "inf"
         THEN (IF Sign(x) * Sign(y) = 0 THEN NaN
               ELSE IF Sign(x) * Sign(y) > 0 THEN Inf ELSE NegInf)
    ELSE Frac(x.num * y.num, x.den * y.den)

\* x + y on floats
Add(x, y) ==
    IF x.k = "nan" \/ y.k = "nan" THEN NaN
    ELSE IF x.k = "inf" /\ y.k = "inf" THEN (IF Sign(x) = Sign(y) THEN x ELSE NaN)
    ELSE IF x.k = "inf" THEN x
    ELSE IF y.k = "inf" THEN y
    ELSE Frac(x.num * y.den + y.num * x.den, x.den * y.den)

\* x > 0 on floats
Positive(x) == x.k # "nan" /\ x.k # "none" /\ x.num > 0

\* int(x): truncation toward zero; ValueError for nan, OverflowError for inf
IntOf(x) ==
    IF x.k = "nan" THEN [exc |-> "ValueError", val |-> 0]
    ELSE IF x.k = "inf" THEN [exc |-> "OverflowError", val |-> 0]
    ELSE [exc |-> "none",
          val |-> IF x.num >= 0 THEN x.num \div x.den ELSE -((-x.num) \div x.den)]

----------------------------------------------------------------------------
(* Extracted field values.  t is the JSON shape of the value: "absent"     *)
(* (no such key), "null", "str" (a string float() and strptime reject      *)
(* unless it is a date string), "numstr" (a string float() accepts),       *)
(* "num" (a JSON number), "datestr" (a string shaped like a date: shape    *)
(* names the layout, parts are its numbers in the order written), "list"   *)
(* (items: the elements), "other" (a dict without a "value" key), "bool"   *)
(* (true or false, s names which) and "bigint" (a JSON integer beyond the  *)
(* range of a float, such as a 400-digit literal: json.loads yields a      *)
(* Python int).                                                            *)
(* w says the value is wrapped as {value: ..., confidence: ...}.           *)

Absent == [t |-> "absent", w |-> FALSE, num |-> NoNum, s |-> "", shape |-> "",
           parts |-> <<>>, items |-> <<>>]
Null == [Absent EXCEPT !.t = "null"]
StrV(s) == [Absent EXCEPT !.t = "str", !.s = s]
NumV(x) == [Absent EXCEPT !.t = "num", !.num = x]
NumStr(x) == [Absent EXCEPT !.t = "numstr", !.num = x]
DateStr(shape, parts) == [Absent EXCEPT !.t = "datestr", !.shape = shape, !.parts = parts]
ListV(items) == [Absent EXCEPT !.t = "list", !.items = items]
OtherV == [Absent EXCEPT !.t = "other"]
BoolV(b) == [Absent EXCEPT !.t = "bool", !.s = IF b THEN "true" ELSE "false"]
BigInt == [Absent EXCEPT !.t = "bigint"]
Wrap(r) == [r EXCEPT !.w = TRUE]

Iso(y, m, d) == DateStr("%Y-%m-%d", <<y, m, d>>)

Sentinels == {"", "not_found", "N/A", "null"}

\* get_val: None is Null
get_val(field_data) ==
    LET inner == [field_data EXCEPT !.w = FALSE]
        sentinel == inner.t = "str" /\ inner.s \in Sentinels
    IN  IF inner.t \in {"absent", "null"} THEN Null
        ELSE IF sentinel THEN Null
        ELSE inner

\* float(v): a number, a bool (1.0 or 0.0) and a string float() accepts
\* convert; any other string raises ValueError, an int too large for a float
\* OverflowError, a list or dict TypeError
float_of(v) ==
    IF v.t \in {"num", "numstr"} THEN [exc |-> "none", val |-> v.num]
    ELSE IF v.t = "bool" THEN [exc |-> "none", val |-> IF v.s = "true" THEN F(1) ELSE F(0)]
    ELSE IF v.t \in {"str", "datestr"} THEN [exc |-> "ValueError", val |-> NoNum]
    ELSE IF v.t = "bigint" THEN [exc |-> "OverflowError", val |-> NoNum]
    ELSE [exc |-> "TypeError", val |-> NoNum]

\* get_num: except (ValueError, TypeError) returns None; Raised stands for
\* the OverflowError that leaves the function
get_num(field_data) ==
    LET v == get_val(field_data)
        r == float_of(v)
    IN  IF v.t = "null" THEN NoNum
        ELSE IF r.exc = "none" THEN r.val
        ELSE IF r.exc \in {"ValueError", "TypeError"} THEN NoNum
        ELSE Raised

\* strptime(v, fmt).date() for the six formats tried in order: the layout
\* decides which format matches, the format decides which part is the year
DateFormats == <<"%Y-%m-%d", "%d-%m-%Y", "%d/%m/%Y", "%Y/%m/%d", "%d %b %Y", "%d %B %Y">>

strptime(v, fmt) ==
    LET p == v.parts
        ymd == IF fmt \in {"%Y-%m-%d", "%Y/%m/%d"} THEN p ELSE <<p[3], p[2], p[1]>>
    IN  IF v.shape = fmt /\ ValidYMD(ymd[1], ymd[2], ymd[3]) THEN ymd ELSE NoDate

RECURSIVE TryFormats(_, _)
TryFormats(v, i) ==
    IF i > Len(DateFormats) THEN NoDate
    ELSE IF strptime(v, DateFormats[i]) # NoDate THEN strptime(v, DateFormats[i])
    ELSE TryFormats(v, i + 1)

get_date(field_data) ==
    LET v == get_val(field_data)
    IN  IF v.t = "datestr" THEN TryFormats(v, 1) ELSE NoDate

\* A section of the extraction: kind is "dict" (a mapping of fields),
\* "wrapped" ({value: {fields}}), "wrapped_other" ({value: not a dict}),
\* "absent", "null" or "other" (a string or list); f maps field names to values.
LeaseTermFields == {"lease_commencement_date", "rent_commencement_date",
                    "lease_expiry_date", "lock_in_months"}
RentFields == {"rent_schedule", "escalation_percentage",
               "escalation_frequency_years", "mglr_payment_day"}
ChargesFields == {"cam_monthly", "cam_escalation_pct", "hvac_rate_per_sqft",
                  "hvac_area_basis", "electricity_load_kw"}
DepositsFields == {"security_deposit_amount", "cam_deposit_amount",
                   "utility_deposit_per_kw"}
PremisesFields == {"covered_area_sqft", "super_area_sqft"}
ScheduleFields == {"mglr_monthly", "monthly_rent", "rent", "mglr_per_sqft", "rent_per_sqft"}
FieldNames == LeaseTermFields \cup RentFields \cup ChargesFields \cup DepositsFields
              \cup PremisesFields \cup ScheduleFields

EmptyDict == [n \in FieldNames |-> Absent]

\* dict.get(name)
Get(d, name) == d[name]

get_section(extraction, section_name) ==
    LET section == extraction[section_name]
    IN  IF section.kind \in {"dict", "wrapped"} THEN section.f ELSE EmptyDict

\* mutant of first_year_rent: only the key mglr_monthly is read
first_year_rent_mglr_only(rent) ==
    LET rent_schedule == get_val(Get(rent, "rent_schedule"))
    IN  IF rent_schedule.t = "list" /\ Len(rent_schedule.items) > 0
           /\ rent_schedule.items[1].isdict
        THEN get_num(Get(rent_schedule.items[1].f, "mglr_monthly"))
        ELSE NoNum

\* rent_schedule[0]'s amount; NoNum when rent_schedule is no non-empty list or
\* its first element is no dict (an element is a dict exactly when isdict)
first_year_rent(rent) ==
    LET rent_schedule == get_val(Get(rent, "rent_schedule"))
    IN  IF rent_schedule.t = "list" /\ Len(rent_schedule.items) > 0
           /\ rent_schedule.items[1].isdict
        THEN LET first == rent_schedule.items[1].f
             IN  OrElse(OrElse(get_num(Get(first, "mglr_monthly")),
                               get_num(Get(first, "monthly_rent"))),
                        get_num(Get(first, "rent")))
        ELSE NoNum

first_year_rate(rent) ==
    LET rent_schedule == get_val(Get(rent, "rent_schedule"))
    IN  IF rent_schedule.t = "list" /\ Len(rent_schedule.items) > 0
           /\ rent_schedule.items[1].isdict
        THEN LET first == rent_schedule.items[1].f
             IN  OrElse(get_num(Get(first, "mglr_per_sqft")),
                        get_num(Get(first, "rent_per_sqft")))
        ELSE NoNum

----------------------------------------------------------------------------
(* create_agreement_record *)

\* lock_in_end_date: the key is set only when both inputs are truthy and the
\* arithmetic raises nothing; ValueError and TypeError are swallowed, any
\* other exception leaves the function
lock_in_end(lease_term) ==
    LET commencement == get_date(Get(lease_term, "lease_commencement_date"))
        lock_in_months == get_num(Get(lease_term, "lock_in_months"))
        n == IntOf(lock_in_months)
    IN  IF lock_in_months = Raised THEN Raise("OverflowError")
        ELSE IF commencement = NoDate \/ ~Truthy(lock_in_months) THEN Ok(NoDate)
        ELSE IF n.exc = "ValueError" THEN Ok(NoDate)
        ELSE IF n.exc # "none" THEN Raise(n.exc)
        ELSE LET e == AddRel(commencement, 0, n.val)
             IN  IF e.exc = "ValueError" THEN Ok(NoDate) ELSE e

\* mutant of total_monthly_outflow: a zero sum is kept
total_monthly_outflow_keeps_zero(monthly_rent, cam_monthly) ==
    LET total == Add(OrElse(monthly_rent, F(0)), OrElse(cam_monthly, F(0)))
    IN  IF Positive(total) \/ total = F(0) THEN total ELSE NoNum

\* total = (monthly_rent or 0) + (cam_monthly or 0); total if total > 0 else None
total_monthly_outflow(monthly_rent, cam_monthly) ==
    LET total == Add(OrElse(monthly_rent, F(0)), OrElse(cam_monthly, F(0)))
    IN  IF Positive(total) THEN total ELSE NoNum

create_agreement_record(extraction, org_id, outlet_id) ==
    LET lease_term == get_section(extraction, "lease_term")
        rent == get_section(extraction, "rent")
        charges == get_section(extraction, "charges")
        deposits == get_section(extraction, "deposits")
        monthly_rent == first_year_rent(rent)
        cam_monthly == get_num(Get(charges, "cam_monthly"))
        security_deposit == get_num(Get(deposits, "security_deposit_amount"))
        lock == lock_in_end(lease_term)
        exc == IF Raised \in {monthly_rent, first_year_rate(rent), cam_monthly,
                              security_deposit}
               THEN "OverflowError"
               ELSE lock.exc
    IN  [exc |-> exc,
         val |-> [org_id |-> org_id,
                  outlet_id |-> outlet_id,
                  lease_commencement_date |-> get_date(Get(lease_term, "lease_commencement_date")),
                  rent_commencement_date |-> get_date(Get(lease_term, "rent_commencement_date")),
                  lease_expiry_date |-> get_date(Get(lease_term, "lease_expiry_date")),
                  monthly_rent |-> monthly_rent,
                  rent_per_sqft |-> first_year_rate(rent),
                  cam_monthly |-> cam_monthly,
                  total_monthly_outflow |-> total_monthly_outflow(monthly_rent, cam_monthly),
                  security_deposit |-> security_deposit,
                  lock_in_end_date |-> lock.val]]

----------------------------------------------------------------------------
(* generate_obligations *)

\* One row of table obligations.  formula is amount_formula: <<>> for none,
\* else the values the f-string prints.
Obligation(org_id, agreement_id, outlet_id, type, frequency, amount, formula, due_day, start_date, end_date, esc_pct, esc_freq, next_esc) ==
    [org_id |-> org_id, agreement_id |-> agreement_id, outlet_id |-> outlet_id,
     type |-> type, frequency |-> frequency, amount |-> amount,
     amount_formula |-> formula, due_day_of_month |-> due_day,
     start_date |-> start_date, end_date |-> end_date,
     escalation_pct |-> esc_pct, escalation_frequency_years |-> esc_freq,
     next_escalation_date |-> next_esc, is_active |-> TRUE]

\* rent_comm or lease_comm (an ISO string is never falsy)
OrDate(a, b) == IF a # NoDate THEN a ELSE b

\* mutant of next_escalation: a fractional frequency counted in months
next_escalation_in_months(start_date, esc_freq) ==
    LET n == IntOf(esc_freq)
    IN  IF start_date = NoDate \/ ~Truthy(esc_freq) THEN Ok(NoDate)
        ELSE IF n.exc = "ValueError" THEN Ok(NoDate)
        ELSE IF n.exc # "none" THEN Raise(n.exc)
        ELSE LET e == AddRel(start_date, 0, (esc_freq.num * 12) \div esc_freq.den)
             IN  IF e.exc = "ValueError" THEN Ok(NoDate) ELSE e

\* next_esc of lines 572-578: ValueError is swallowed, OverflowError leaves
next_escalation(start_date, esc_freq) ==
    LET n == IntOf(esc_freq)
    IN  IF start_date = NoDate \/ ~Truthy(esc_freq) THEN Ok(NoDate)
        ELSE IF n.exc = "ValueError" THEN Ok(NoDate)
        ELSE IF n.exc # "none" THEN Raise(n.exc)
        ELSE LET e == AddRel(start_date, n.val, 0)
             IN  IF e.exc = "ValueError" THEN Ok(NoDate) ELSE e

\* int(get_num(rent.get("mglr_payment_day")) or 7)
payment_day_of(rent) ==
    IF get_num(Get(rent, "mglr_payment_day")) = Raised
    THEN [exc |-> "OverflowError", val |-> 0]
    ELSE IntOf(OrElse(get_num(Get(rent, "mglr_payment_day")), F(7)))

\* get_val(charges.get("hvac_area_basis")) or "covered_area"
area_basis_of(charges) ==
    LET v == get_val(Get(charges, "hvac_area_basis"))
    IN  IF v.t = "str" THEN v.s
        ELSE IF \/ v.t = "null"
                \/ (v.t = "num" /\ ~Truthy(v.num))
                \/ (v.t = "bool" /\ v.s = "false")
                \/ (v.t = "list" /\ Len(v.items) = 0)
             THEN "covered_area"
        ELSE "as given"

\* area of line 630
area_of(premises) ==
    OrElse(get_num(Get(premises, "covered_area_sqft")),
           get_num(Get(premises, "super_area_sqft")))

\* mutant of hvac_obligation: the row is built whether or not rate and area
\* are there
hvac_obligation_unguarded(charges, premises, org_id, agreement_id, outlet_id, payment_day, start, end_date) ==
    << Obligation(org_id, agreement_id, outlet_id, "hvac", "monthly",
                  IF Truthy(get_num(Get(charges, "hvac_rate_per_sqft")))
                     /\ Truthy(area_of(premises))
                  THEN Mul(get_num(Get(charges, "hvac_rate_per_sqft")), area_of(premises))
                  ELSE NoNum,
                  <<>>, <<payment_day>>, start, end_date, NoNum, NoInt, NoDate) >>

\* the HVAC obligation of lines 625-644, as a list of zero or one rows
hvac_obligation(charges, premises, org_id, agreement_id, outlet_id, payment_day, start, end_date) ==
    LET hvac_rate == get_num(Get(charges, "hvac_rate_per_sqft"))
        area == area_of(premises)
    IN  IF Truthy(hvac_rate) /\ Truthy(area)
        THEN << Obligation(org_id, agreement_id, outlet_id, "hvac", "monthly",
                           Mul(hvac_rate, area),
                           <<"hvac", hvac_rate, area, area_basis_of(charges)>>,
                           <<payment_day>>, start, end_date, NoNum, NoInt, NoDate) >>
        ELSE << >>

generate_obligations(extraction, agreement_id, outlet_id, org_id) ==
    LET lease_term == get_section(extraction, "lease_term")
        rent == get_section(extraction, "rent")
        charges == get_section(extraction, "charges")
        deposits == get_section(extraction, "deposits")
        premises == get_section(extraction, "premises")
        rent_comm == get_date(Get(lease_term, "rent_commencement_date"))
        lease_comm == get_date(Get(lease_term, "lease_commencement_date"))
        lease_expiry == get_date(Get(lease_term, "lease_expiry_date"))
        start_date == OrDate(rent_comm, lease_comm)
        end_date == lease_expiry
        esc_pct == get_num(Get(rent, "escalation_percentage"))
        esc_freq == get_num(Get(rent, "escalation_frequency_years"))
        next_esc == next_escalation(start_date, esc_freq)
        pd == payment_day_of(rent)
        payment_day == pd.val
        monthly_rent == first_year_rent(rent)
        \* int(esc_freq) if esc_freq else None, evaluated when the rent row is built
        freq_int == IF Truthy(esc_freq) THEN IntOf(esc_freq)
                    ELSE [exc |-> "none", val |-> 0]
        cam_monthly == get_num(Get(charges, "cam_monthly"))
        elec_load == get_num(Get(charges, "electricity_load_kw"))
        sec_dep == get_num(Get(deposits, "security_deposit_amount"))
        cam_dep == get_num(Get(deposits, "cam_deposit_amount"))
        util_dep_per_kw == get_num(Get(deposits, "utility_deposit_per_kw"))
        other_start == OrDate(lease_comm, start_date)
        rentO == IF Truthy(monthly_rent)
                 THEN << Obligation(org_id, agreement_id, outlet_id, "rent", "monthly",
                                    monthly_rent, <<>>, <<payment_day>>, start_date,
                                    end_date, esc_pct,
                                    IF Truthy(esc_freq) THEN <<freq_int.val>> ELSE NoInt,
                                    next_esc.val) >>
                 ELSE << >>
        camO == IF Truthy(cam_monthly)
                THEN << Obligation(org_id, agreement_id, outlet_id, "cam", "monthly",
                                   cam_monthly, <<>>, <<payment_day>>, other_start,
                                   end_date, get_num(Get(charges, "cam_escalation_pct")),
                                   NoInt, NoDate) >>
                ELSE << >>
        hvacO == hvac_obligation(charges, premises, org_id, agreement_id, outlet_id,
                                 payment_day, other_start, end_date)
        elecO == IF Truthy(elec_load)
                 THEN << Obligation(org_id, agreement_id, outlet_id, "electricity",
                                    "monthly", NoNum, <<"metered", elec_load>>,
                                    <<payment_day>>, other_start, end_date,
                                    NoNum, NoInt, NoDate) >>
                 ELSE << >>
        secO == IF Truthy(sec_dep)
                THEN << Obligation(org_id, agreement_id, outlet_id, "security_deposit",
                                   "one_time", sec_dep, <<>>, NoInt, other_start, NoDate,
                                   NoNum, NoInt, NoDate) >>
                ELSE << >>
        camDepO == IF Truthy(cam_dep)
                   THEN << Obligation(org_id, agreement_id, outlet_id, "cam_deposit",
                                      "one_time", cam_dep, <<>>, NoInt, other_start, NoDate,
                                      NoNum, NoInt, NoDate) >>
                   ELSE << >>
        utilO == IF Truthy(util_dep_per_kw) /\ Truthy(elec_load)
                 THEN << Obligation(org_id, agreement_id, outlet_id, "utility_deposit",
                                    "one_time", Mul(util_dep_per_kw, elec_load),
                                    <<"per_kw", util_dep_per_kw, elec_load>>, NoInt,
                                    other_start, NoDate, NoNum, NoInt, NoDate) >>
                 ELSE << >>
        hvac_rate == get_num(Get(charges, "hvac_rate_per_sqft"))
        \* the first statement that raises, in the order of the code
        exc == IF Raised \in {esc_pct, esc_freq} THEN "OverflowError"
               ELSE IF next_esc.exc # "none" THEN next_esc.exc
               ELSE IF pd.exc # "none" THEN pd.exc
               ELSE IF monthly_rent = Raised THEN "OverflowError"
               ELSE IF Truthy(monthly_rent) /\ freq_int.exc # "none" THEN freq_int.exc
               ELSE IF \/ cam_monthly = Raised
                       \/ (Truthy(cam_monthly)
                             /\ get_num(Get(charges, "cam_escalation_pct")) = Raised)
                       \/ hvac_rate = Raised
                       \/ (Truthy(hvac_rate) /\ area_of(premises) = Raised)
                       \/ Raised \in {elec_load, sec_dep, cam_dep, util_dep_per_kw}
                    THEN "OverflowError"
               ELSE "none"
    IN  [exc |-> exc,
         val |-> IF exc = "none"
                 THEN rentO \o camO \o hvacO \o elecO \o secO \o camDepO \o utilO
                 ELSE << >>]

----------------------------------------------------------------------------
(* generate_alerts *)

Alert(org_id, outlet_id, agreement_id, type, severity, trigger, lead, reference) ==
    [org_id |-> org_id, outlet_id |-> outlet_id, agreement_id |-> agreement_id,
     type |-> type, severity |-> severity, trigger_date |-> trigger,
     lead_days |-> lead, reference_date |-> reference, status |-> "pending"]

\* "high" if lead <= 30 else "medium" for lease_expiry, "medium" for the rest
severity_of(type, lead) ==
    IF type = "lease_expiry" /\ lead <= 30 THEN "high" ELSE "medium"

\* mutants of trigger_of: one day short; the lead added instead of subtracted
trigger_of_one_short(reference, lead) == SubDays(reference, lead - 1)
trigger_of_added(reference, lead) == SubDays(reference, 0 - lead)

\* trigger = reference - timedelta(days=lead)
trigger_of(reference, lead) == SubDays(reference, lead)

\* mutant of not_past: the filter dropped
not_past_unfiltered(trigger, now) == TRUE

\* if trigger >= date.today()
not_past(trigger, now) == ~DateLT(trigger, now)

\* the "for lead in [...]" loops: one alert per lead whose trigger is not
\* before today; the subtraction's OverflowError is caught nowhere
RECURSIVE lead_alerts(_, _, _, _, _, _, _)
lead_alerts(ids, type, reference, leads, i, now, acc) ==
    IF i > Len(leads) THEN [exc |-> "none", val |-> acc]
    ELSE LET lead == leads[i]
             trigger == trigger_of(reference, lead)
         IN  IF trigger.exc # "none" THEN [exc |-> trigger.exc, val |-> acc]
             ELSE lead_alerts(ids, type, reference, leads, i + 1, now,
                     IF not_past(trigger.val, now)
                     THEN Append(acc, Alert(ids.org_id, ids.outlet_id, ids.agreement_id,
                                            type, severity_of(type, lead), trigger.val,
                                            lead, reference))
                     ELSE acc)

LeaseExpiryLeads == <<180, 90, 30, 7>>
LockInLeads == <<90, 30>>
EscalationLeads == <<90, 30, 7>>

\* 1. lease expiry (lines 728-746)
lease_expiry_alerts(ids, lease_expiry, now) ==
    IF lease_expiry = NoDate THEN [exc |-> "none", val |-> << >>]
    ELSE lead_alerts(ids, "lease_expiry", lease_expiry, LeaseExpiryLeads, 1, now, << >>)

\* 2. lock-in expiry (lines 748-770): the try swallows ValueError and TypeError
lock_in_alerts(ids, lock_in_months, lease_comm, now) ==
    LET n == IntOf(lock_in_months)
        lock_end == AddRel(lease_comm, 0, n.val)
    IN  IF ~Truthy(lock_in_months) \/ lease_comm = NoDate THEN [exc |-> "none", val |-> << >>]
        ELSE IF n.exc = "ValueError" THEN [exc |-> "none", val |-> << >>]
        ELSE IF n.exc # "none" THEN [exc |-> n.exc, val |-> << >>]
        ELSE IF lock_end.exc = "ValueError" THEN [exc |-> "none", val |-> << >>]
        ELSE lead_alerts(ids, "lock_in_expiry", lock_end.val, LockInLeads, 1, now, << >>)

\* mutant of advance_escalation: the loop steps one year at a time
RECURSIVE advance_escalation_yearly(_, _, _)
advance_escalation_yearly(esc_date, n, now) ==
    IF ~DateLT(esc_date, now) THEN Ok(esc_date)
    ELSE LET nxt == AddRel(esc_date, 1, 0)
         IN  IF nxt.exc # "none" THEN nxt ELSE advance_escalation_yearly(nxt.val, n, now)

\* while esc_date < date.today(): esc_date += relativedelta(years=n)
\* With n = 0 the body changes nothing, so the loop never ends ("diverges").
\* With n < 0 every pass lowers the year and keeps esc_date before today, until
\* the year falls below MINYEAR and relativedelta raises ValueError.
RECURSIVE advance_escalation(_, _, _)
advance_escalation(esc_date, n, now) ==
    IF ~DateLT(esc_date, now) THEN Ok(esc_date)
    ELSE IF n = 0 THEN Raise("diverges")
    ELSE IF n < 0 THEN Raise("ValueError")
    ELSE LET nxt == AddRel(esc_date, n, 0)
         IN  IF nxt.exc # "none" THEN nxt ELSE advance_escalation(nxt.val, n, now)

\* the escalation reference date of lines 775-779
escalation_date(base, esc_freq, now) ==
    LET n == IntOf(esc_freq)
        first == AddRel(base, n.val, 0)
    IN  IF n.exc # "none" THEN Raise(n.exc)
        ELSE IF first.exc # "none" THEN first
        ELSE advance_escalation(first.val, n.val, now)

\* 3. escalation (lines 772-797)
escalation_alerts(ids, esc_pct, esc_freq, rent_comm, lease_comm, now) ==
    LET base == OrDate(rent_comm, lease_comm)
        esc_date == escalation_date(base, esc_freq, now)
    IN  IF ~Truthy(esc_pct) \/ ~Truthy(esc_freq) \/ base = NoDate
        THEN [exc |-> "none", val |-> << >>]
        ELSE IF esc_date.exc = "ValueError" THEN [exc |-> "none", val |-> << >>]
        ELSE IF esc_date.exc # "none" THEN [exc |-> esc_date.exc, val |-> << >>]
        ELSE lead_alerts(ids, "escalation", esc_date.val, EscalationLeads, 1, now, << >>)

RentDueMonths == 6
RentDueLead == 7
MaxDueDay == 28

\* for m in range(6): the date constructor's and relativedelta's ValueError end
\* the loop (except ValueError: pass) and keep the alerts appended so far
RECURSIVE rent_due_alerts(_, _, _, _, _)
rent_due_alerts(ids, payment_day, m, now, acc) ==
    IF m >= RentDueMonths THEN [exc |-> "none", val |-> acc]
    ELSE IF ~ValidYMD(now[1], now[2], Min(payment_day, MaxDueDay))
         THEN [exc |-> "none", val |-> acc]
    ELSE LET due == AddRel(<<now[1], now[2], Min(payment_day, MaxDueDay)>>, 0, m)
             trigger == trigger_of(due.val, RentDueLead)
         IN  IF due.exc = "ValueError" THEN [exc |-> "none", val |-> acc]
             ELSE IF trigger.exc # "none" THEN [exc |-> trigger.exc, val |-> acc]
             ELSE rent_due_alerts(ids, payment_day, m + 1, now,
                     IF not_past(trigger.val, now)
                     THEN Append(acc, Alert(ids.org_id, ids.outlet_id, ids.agreement_id,
                                            "rent_due", "medium", trigger.val,
                                            RentDueLead, due.val))
                     ELSE acc)

generate_alerts(extraction, agreement_id, outlet_id, org_id, now) ==
    LET ids == [org_id |-> org_id, outlet_id |-> outlet_id, agreement_id |-> agreement_id]
        lease_term == get_section(extraction, "lease_term")
        rent == get_section(extraction, "rent")
        lease_expiry == get_date(Get(lease_term, "lease_expiry_date"))
        lease_comm == get_date(Get(lease_term, "lease_commencement_date"))
        rent_comm == get_date(Get(lease_term, "rent_commencement_date"))
        lock_in_months == get_num(Get(lease_term, "lock_in_months"))
        esc_pct == get_num(Get(rent, "escalation_percentage"))
        esc_freq == get_num(Get(rent, "escalation_frequency_years"))
        a1 == lease_expiry_alerts(ids, lease_expiry, now)
        a2 == lock_in_alerts(ids, lock_in_months, lease_comm, now)
        a3 == escalation_alerts(ids, esc_pct, esc_freq, rent_comm, lease_comm, now)
        pd == payment_day_of(rent)
        a4 == IF OrDate(rent_comm, lease_comm) = NoDate THEN [exc |-> "none", val |-> << >>]
              ELSE rent_due_alerts(ids, pd.val, 0, now, << >>)
        exc == IF Raised \in {lock_in_months, esc_pct, esc_freq} THEN "OverflowError"
               ELSE IF a1.exc # "none" THEN a1.exc
               ELSE IF a2.exc # "none" THEN a2.exc
               ELSE IF a3.exc # "none" THEN a3.exc
               ELSE IF pd.exc # "none" THEN pd.exc
               ELSE a4.exc
    IN  [exc |-> exc,
         val |-> IF exc = "none" THEN a1.val \o a2.val \o a3.val \o a4.val ELSE << >>]

----------------------------------------------------------------------------
(* confirm_and_activate (lines 1029-1087), one whole request.  Every insert  *)
(* made before an exception stays in the store; the handler turns the        *)
(* exception into HTTP 500.  A request whose escalation loop never ends      *)
(* never answers ("hang").                                                   *)

NoOrg == ""

\* the id the store gives the next row of table organizations
NewOrgId(orgs) == <<"org-1", "org-2", "org-3">>[Len(orgs) + 1]

\* get_or_create_demo_org, the select: id of the first organization named
\* "GroSpace Demo", NoOrg when the result is empty
select_demo_org(orgs) ==
    IF \E k \in 1..Len(orgs) : orgs[k].name = "GroSpace Demo"
    THEN orgs[CHOOSE k \in 1..Len(orgs) :
                 /\ orgs[k].name = "GroSpace Demo"
                 /\ \A j \in 1..(k - 1) : orgs[j].name # "GroSpace Demo"].id
    ELSE NoOrg

\* get_or_create_demo_org, the insert
insert_demo_org(orgs) == Append(orgs, [id |-> NewOrgId(orgs), name |-> "GroSpace Demo"])

\* get_or_create_demo_org run without interruption
get_or_create_demo_org(orgs) ==
    IF select_demo_org(orgs) # NoOrg
    THEN [id |-> select_demo_org(orgs), organizations |-> orgs]
    ELSE [id |-> NewOrgId(orgs), organizations |-> insert_demo_org(orgs)]

Idle == [op |-> "none", status |-> "none"]

create_outlet_from_extraction(extraction, org_id) == [org_id |-> org_id]

ConfirmAndActivate ==
    /\ req.state = "received"
    /\ \E org \in {IF req.org_id # NoOrg
                    THEN [id |-> req.org_id, organizations |-> organizations]
                    ELSE get_or_create_demo_org(organizations)} :
       \E org_id \in {org.id}, outlet_id \in {Len(outlets) + 1},
          agreement_id \in {Len(agreements) + 1} :
       \E agr \in {create_agreement_record(req.extraction, org_id, outlet_id)},
          obl \in {generate_obligations(req.extraction, agreement_id, outlet_id, org_id)},
          alr \in {generate_alerts(req.extraction, agreement_id, outlet_id, org_id, today)} :
       \E exc \in {IF agr.exc # "none" THEN agr.exc
                   ELSE IF obl.exc # "none" THEN obl.exc
                   ELSE alr.exc} :
           /\ organizations' = org.organizations
           /\ outlets' = Append(outlets, create_outlet_from_extraction(req.extraction, org_id))
           /\ agreements' = IF agr.exc = "none" THEN Append(agreements, agr.val)
                            ELSE agreements
           /\ obligations' = IF agr.exc = "none" /\ obl.exc = "none"
                             THEN obligations \o obl.val ELSE obligations
           /\ alerts' = IF exc = "none" THEN alerts \o alr.val ELSE alerts
           /\ resp' = [op |-> "confirm_and_activate",
                       status |-> IF exc = "none" THEN "activated"
                                  ELSE IF exc = "diverges" THEN "hang" ELSE "error",
                       exc |-> exc,
                       failed_in |-> IF exc = "none" THEN "none"
                                     ELSE IF agr.exc # "none" THEN "create_agreement_record"
                                     ELSE IF obl.exc # "none" THEN "generate_obligations"
                                     ELSE "generate_alerts",
                       agreement_id |-> agreement_id,
                       outlet_id |-> outlet_id,
                       obligations_created |-> IF exc = "none" THEN Len(obl.val) ELSE 0,
                       alerts_created |-> IF exc = "none" THEN Len(alr.val) ELSE 0]
    /\ req' = [req EXCEPT !.state = "served"]
    /\ UNCHANGED <<today, payment_records, budget, gen>>

----------------------------------------------------------------------------
(* generate_payment_records (lines 1619-1684) *)

NoUser == [auth |-> FALSE, role |-> "", org_id |-> NoOrg]

\* get_org_filter: None (NoOrg) means no filter
get_org_filter(user) ==
    IF ~user.auth THEN NoOrg
    ELSE IF user.role = "platform_admin" THEN NoOrg
    ELSE user.org_id

\* mutant of query_obligations: the is_active filter dropped
RECURSIVE query_obligations_any_active(_, _, _)
query_obligations_any_active(table, org_id, i) ==
    IF i > Len(table) THEN << >>
    ELSE (IF /\ table[i].frequency # "one_time"
             /\ (org_id = NoOrg \/ table[i].org_id = org_id)
          THEN <<i>> ELSE << >>) \o query_obligations_any_active(table, org_id, i + 1)

\* the ids of the rows the obligations query returns, in table order
RECURSIVE query_obligations(_, _, _)
query_obligations(table, org_id, i) ==
    IF i > Len(table) THEN << >>
    ELSE (IF /\ table[i].is_active
             /\ table[i].frequency # "one_time"
             /\ (org_id = NoOrg \/ table[i].org_id = org_id)
          THEN <<i>> ELSE << >>) \o query_obligations(table, org_id, i + 1)

\* "YYYY-MM" strings compared: year first, then month
MonthLT(y1, m1, y2, m2) == y1 < y2 \/ (y1 = y2 /\ m1 < m2)

\* the two "continue" tests on the obligation's validity window
outside_window(obl, period_year, period_month) ==
    \/ /\ obl.start_date # NoDate
       /\ MonthLT(period_year, period_month, obl.start_date[1], obl.start_date[2])
    \/ /\ obl.end_date # NoDate
       /\ MonthLT(obl.end_date[1], obl.end_date[2], period_year, period_month)

\* mutant of existing: month and year compared crosswise, so no row matches
existing_month_year_swapped(records, obligation_id, period_year, period_month) ==
    { k \in 1..Len(records) : /\ records[k].obligation_id = obligation_id
                              /\ records[k].period_month = period_year
                              /\ records[k].period_year = period_month }

\* the existence query of lines 1653-1655
existing(records, obligation_id, period_year, period_month) ==
    { k \in 1..Len(records) : /\ records[k].obligation_id = obligation_id
                              /\ records[k].period_month = period_month
                              /\ records[k].period_year = period_year }

\* obl.get("due_day_of_month") or 1
due_day_of(obl) ==
    IF obl.due_day_of_month = NoInt \/ obl.due_day_of_month[1] = 0 THEN 1
    ELSE obl.due_day_of_month[1]

\* mutant of payment_status: the seventh day no longer counts as due
payment_status_within_six(due_date, now) ==
    IF DateLT(due_date, now) THEN "overdue"
    ELSE IF toordinal(due_date) < toordinal(now) + 7 THEN "due"
    ELSE "upcoming"

\* p_status of lines 1663-1668
payment_status(due_date, now) ==
    IF DateLT(due_date, now) THEN "overdue"
    ELSE IF toordinal(due_date) <= toordinal(now) + 7 THEN "due"
    ELSE "upcoming"

\* the row inserted for one period; date(...) raises ValueError for a day
\* below 1
payment_data(obl, obligation_id, period_year, period_month, now) ==
    LET actual_day == Min(due_day_of(obl), MaxDueDay)
        due_date_val == <<period_year, period_month, actual_day>>
    IN  IF ~ValidYMD(period_year, period_month, actual_day)
        THEN [exc |-> "ValueError", val |-> << >>]
        ELSE [exc |-> "none",
              val |-> [org_id |-> obl.org_id,
                       obligation_id |-> obligation_id,
                       outlet_id |-> obl.outlet_id,
                       period_month |-> period_month,
                       period_year |-> period_year,
                       due_date |-> due_date_val,
                       due_amount |-> obl.amount,
                       status |-> payment_status(due_date_val, now),
                       paid_amount |-> NoNum]]

\* the two nested loops, up to the next period that reaches the existence
\* query: from obligation ids[i], offset m.  kind is "end" when the loops are
\* over and "error" when today + relativedelta(months=m) raises.
RECURSIVE next_period(_, _, _, _, _, _)
next_period(table, ids, i, m, months_ahead, now) ==
    IF i > Len(ids) THEN [kind |-> "end", i |-> i, m |-> 0, year |-> 0, month |-> 0]
    ELSE IF m >= months_ahead THEN next_period(table, ids, i + 1, 0, months_ahead, now)
    ELSE LET target == AddRel(now, 0, m)
         IN  IF target.exc # "none"
             THEN [kind |-> "error", i |-> i, m |-> m, year |-> 0, month |-> 0]
             ELSE IF outside_window(table[ids[i]], target.val[1], target.val[2])
             THEN next_period(table, ids, i, m + 1, months_ahead, now)
             ELSE [kind |-> "period", i |-> i, m |-> m,
                   year |-> target.val[1], month |-> target.val[2]]

\* one whole run of the loops from (i, m): the records afterwards, the count,
\* and the exception that ended it, if any.  serve_period is the loop body
\* from the existence query on, for the period p that next_period found.
RECURSIVE run_generator(_, _, _, _, _, _, _, _)

\* mutant of serve_period: a period that exists is refreshed with the
\* obligation's present amount
serve_period_refreshing(table, ids, p, row, months_ahead, now, records, created_count) ==
    IF p.kind = "end"
    THEN [exc |-> "none", records |-> records, created |-> created_count]
    ELSE IF p.kind = "error"
    THEN [exc |-> "ValueError", records |-> records, created |-> created_count]
    ELSE IF existing(records, ids[p.i], p.year, p.month) # {}
    THEN run_generator(table, ids, p.i, p.m + 1, months_ahead, now,
                       [k \in 1..Len(records) |->
                          IF k \in existing(records, ids[p.i], p.year, p.month)
                          THEN [records[k] EXCEPT !.due_amount = table[ids[p.i]].amount]
                          ELSE records[k]],
                       created_count)
    ELSE IF row.exc # "none"
    THEN [exc |-> row.exc, records |-> records, created |-> created_count]
    ELSE run_generator(table, ids, p.i, p.m + 1, months_ahead, now,
                       Append(records, row.val), created_count + 1)

\* mutant of serve_period: a period that exists is written again
serve_period_upserting(table, ids, p, row, months_ahead, now, records, created_count) ==
    IF p.kind = "end"
    THEN [exc |-> "none", records |-> records, created |-> created_count]
    ELSE IF p.kind = "error"
    THEN [exc |-> "ValueError", records |-> records, created |-> created_count]
    ELSE IF row.exc # "none"
    THEN [exc |-> row.exc, records |-> records, created |-> created_count]
    ELSE IF existing(records, ids[p.i], p.year, p.month) # {}
    THEN run_generator(table, ids, p.i, p.m + 1, months_ahead, now,
                       [k \in 1..Len(records) |->
                          IF k \in existing(records, ids[p.i], p.year, p.month)
                          THEN row.val ELSE records[k]],
                       created_count)
    ELSE run_generator(table, ids, p.i, p.m + 1, months_ahead, now,
                       Append(records, row.val), created_count + 1)

serve_period(table, ids, p, row, months_ahead, now, records, created_count) ==
    IF p.kind = "end"
    THEN [exc |-> "none", records |-> records, created |-> created_count]
    ELSE IF p.kind = "error"
    THEN [exc |-> "ValueError", records |-> records, created |-> created_count]
    ELSE IF existing(records, ids[p.i], p.year, p.month) # {}
    THEN run_generator(table, ids, p.i, p.m + 1, months_ahead, now, records,
                       created_count)
    ELSE IF row.exc # "none"
    THEN [exc |-> row.exc, records |-> records, created |-> created_count]
    ELSE run_generator(table, ids, p.i, p.m + 1, months_ahead, now,
                       Append(records, row.val), created_count + 1)

period_row(table, ids, p, now) ==
    IF p.kind = "period"
    THEN payment_data(table[ids[p.i]], ids[p.i], p.year, p.month, now)
    ELSE [exc |-> "none", val |-> << >>]

run_generator(table, ids, i, m, months_ahead, now, records, created_count) ==
    LET p == next_period(table, ids, i, m, months_ahead, now)
    IN  serve_period(table, ids, p, period_row(table, ids, p, now), months_ahead, now,
                     records, created_count)

MaxRuns == 2
MaxTicks == 1
MaxMonthsAhead == 3

\* One request served alone.  resp.inserted is the number of rows the run
\* added; resp.repeat says the request before it was the same request on the
\* same day.
GeneratePaymentRecords(user, months_ahead) ==
    /\ budget.runs < MaxRuns
    /\ \E ids \in {query_obligations(obligations, get_org_filter(user), 1)} :
       \E run \in {run_generator(obligations, ids, 1, 0, months_ahead, today,
                                 payment_records, 0)} :
           /\ payment_records' = run.records
           /\ resp' = [op |-> "generate_payment_records",
                       status |-> IF run.exc = "none" THEN "ok" ELSE "error",
                       exc |-> run.exc,
                       created |-> run.created,
                       inserted |-> Len(run.records) - Len(payment_records),
                       months_ahead |-> months_ahead,
                       today |-> today,
                       user |-> user,
                       repeat |-> /\ resp.op = "generate_payment_records"
                                  /\ resp.months_ahead = months_ahead
                                  /\ resp.user = user
                                  /\ resp.today = today]
    /\ budget' = [budget EXCEPT !.runs = @ + 1]
    /\ UNCHANGED <<organizations, today, req, outlets, agreements, obligations, alerts, gen>>

\* the calendar moves on
Tick(days) ==
    /\ budget.ticks < MaxTicks
    /\ today' = fromordinal(toordinal(today) + days)
    /\ budget' = [budget EXCEPT !.ticks = @ + 1]
    /\ UNCHANGED <<organizations, req, outlets, agreements, obligations, alerts, payment_records,
                   resp, gen>>

----------------------------------------------------------------------------
(* The requests and dates the derivation is explored over. *)

SectionNames == {"lease_term", "rent", "charges", "deposits", "premises"}

SectionFields(name) ==
    CASE name = "lease_term" -> LeaseTermFields
      [] name = "rent" -> RentFields
      [] name = "charges" -> ChargesFields
      [] name = "deposits" -> DepositsFields
      [] name = "premises" -> PremisesFields

\* a dict holding exactly the keys of record a
Dict(a, allowed) == [n \in FieldNames |-> IF n \in allowed /\ n \in DOMAIN a THEN a[n] ELSE Absent]

YearRow(a) == [isdict |-> TRUE, f |-> Dict(a, ScheduleFields)]
NotADictRow == [isdict |-> FALSE, f |-> EmptyDict]

AllDict == [n \in SectionNames |-> "dict"]

\* the extraction whose sections have the given kinds and whose fields are a
Extraction(a, kinds) ==
    [n \in SectionNames |-> [kind |-> kinds[n], f |-> Dict(a, SectionFields(n))]]

DMY(shape, y, m, d) == DateStr(shape, <<d, m, y>>)

\* the lease of the end-to-end scenario, its dates and amounts written in the
\* ways the extractor writes them
E2EFields(style, rent_key) ==
    LET date(y, m, d) == CASE style = "iso" -> Iso(y, m, d)
                           [] style = "dmy-" -> DMY("%d-%m-%Y", y, m, d)
                           [] style = "dmy/" -> DMY("%d/%m/%Y", y, m, d)
                           [] style = "mon" -> DMY("%d %b %Y", y, m, d)
                           [] style = "wrapped" -> Wrap(Iso(y, m, d))
        num(n) == CASE style = "wrapped" -> Wrap(NumV(F(n)))
                    [] style = "dmy-" -> NumStr(F(n))
                    [] OTHER -> NumV(F(n))
    IN  [lease_commencement_date |-> date(2025, 2, 1),
         rent_commencement_date |-> date(2025, 3, 18),
         lock_in_months |-> num(36),
         lease_expiry_date |-> date(2034, 1, 31),
         rent_schedule |-> IF style = "wrapped"
                           THEN Wrap(ListV(<< YearRow([n \in {rent_key} |-> num(285000)]),
                                              YearRow([n \in {rent_key} |-> num(300000)]) >>))
                           ELSE ListV(<< YearRow([n \in {rent_key} |-> num(285000)]) >>),
         cam_monthly |-> num(59200)]

E2EExtractions ==
    { Extraction(E2EFields(style, k), [AllDict EXCEPT !["lease_term"] = sk]) :
        style \in {"iso", "dmy-", "dmy/", "mon", "wrapped"}, k \in {"mglr_monthly",
                "monthly_rent", "rent"}, sk \in {"dict", "wrapped"} }

\* only hvac_rate_per_sqft and covered_area_sqft present
HvacOnlyExtractions ==
    { Extraction([hvac_rate_per_sqft |-> r, covered_area_sqft |-> a], AllDict) :
        r \in {NumV(F(85)), NumV(Frac(3, 2)), NumStr(F(40)), Wrap(NumV(F(85))), NumV(F(0)),
                Wrap(NumV(F(0)))}, a \in {NumV(F(1000)), NumStr(Frac(2501, 2)),
                Wrap(NumV(F(1200))), NumV(F(0))} }

\* a lease with every category present
FullFields ==
    [lease_commencement_date |-> Iso(2025, 2, 1),
     rent_commencement_date |-> Iso(2025, 3, 18),
     lock_in_months |-> NumV(F(36)),
     lease_expiry_date |-> Iso(2034, 1, 31),
     rent_schedule |-> ListV(<< YearRow([mglr_monthly |-> NumV(F(285000)),
                                         mglr_per_sqft |-> NumV(F(190))]) >>),
     escalation_percentage |-> NumV(F(15)),
     escalation_frequency_years |-> NumV(F(3)),
     mglr_payment_day |-> NumV(F(10)),
     cam_monthly |-> NumV(F(59200)),
     cam_escalation_pct |-> NumV(F(5)),
     hvac_rate_per_sqft |-> NumV(F(85)),
     hvac_area_basis |-> StrV("super_area"),
     electricity_load_kw |-> NumV(F(45)),
     security_deposit_amount |-> NumV(F(1710000)),
     cam_deposit_amount |-> NumV(F(118400)),
     utility_deposit_per_kw |-> NumV(F(5000)),
     covered_area_sqft |-> NumV(F(1500)),
     super_area_sqft |-> NumV(F(1800))]

\* the full lease with one field replaced, or one section misshapen
OneFieldOffExtractions ==
    { Extraction([FullFields EXCEPT ![n] = v], AllDict) :
        n \in (LeaseTermFields \cup RentFields \cup ChargesFields \cup DepositsFields
                \cup PremisesFields),
        v \in {Null, StrV(""), StrV("not_found"), StrV("N/A"), StrV("null"), Wrap(Null),
               Wrap(StrV("not_found")), StrV("abc"), Wrap(StrV("abc")), OtherV, ListV(<< >>),
               ListV(<< NotADictRow >>), Iso(2027, 2, 30),
               DateStr("%m.%d.%Y", <<3, 18, 2025>>)}
              \cup {NumV(F(0)), NumV(F(-5)), NumV(Frac(1, 2)), NumV(Frac(5, 2)), NumV(NaN),
                    NumStr(Inf), NumV(NegInf)}
              \cup {Iso(1990, 1, 1), Iso(MAXYEAR, 12, 31), Iso(2024, 2, 29)} \cup {Absent} }

OneSectionOffExtractions ==
    { Extraction(FullFields, [AllDict EXCEPT ![n] = k]) :
        n \in SectionNames, k \in {"dict", "wrapped", "wrapped_other", "absent", "null", "other"} }

\* escalation: bases, frequencies and percentages
EscalationExtractions ==
    { Extraction([rent_commencement_date |-> rc, lease_commencement_date |-> lc,
                  escalation_frequency_years |-> fr, escalation_percentage |-> NumV(F(15))],
                 AllDict) :
        rc \in {Iso(2024, 1, 15), Iso(2024, 2, 29), DMY("%d/%m/%Y", 2026, 12, 1)} \cup {Absent},
                lc \in {Absent, Iso(2024, 2, 29), Iso(2023, 6, 1)},
        fr \in {NumV(F(1)), NumV(F(3)), NumStr(F(4)), NumV(Frac(5, 2)), NumV(Frac(1, 2)),
                NumV(F(-1)), NumV(NaN), NumV(Inf)} }

\* lease expiry and lock-in dates around the days the derivation runs on
DateExtractions ==
    { Extraction([lease_expiry_date |-> e, lease_commencement_date |-> Iso(2025, 2, 1),
                  lock_in_months |-> l, mglr_payment_day |-> p], AllDict) :
        e \in {Iso(2034, 1, 31), Iso(2027, 11, 28), Iso(2027, 6, 8), Iso(2027, 6, 7), Iso(2028,
                3, 30), DMY("%d-%m-%Y", 2028, 5, 29), Iso(2027, 5, 1), Iso(1, 1, 5)},
                l \in {NumV(F(36)), NumV(F(1)), NumStr(F(48)), NumV(F(-2)), NumV(Frac(73, 2)),
                NumV(F(120000)), NumV(F(0)), Absent},
        p \in {Absent, NumV(F(31)), NumV(F(1))} }

\* the fields each charge type is computed from (lines 583-704)
ChargeTypes == <<"rent", "cam", "hvac", "electricity", "security_deposit",
                 "cam_deposit", "utility_deposit">>

ChargeInputs(type) ==
    CASE type = "rent" -> {"rent_schedule"}
      [] type = "cam" -> {"cam_monthly"}
      [] type = "hvac" -> {"hvac_rate_per_sqft", "covered_area_sqft", "super_area_sqft"}
      [] type = "electricity" -> {"electricity_load_kw"}
      [] type = "security_deposit" -> {"security_deposit_amount"}
      [] type = "cam_deposit" -> {"cam_deposit_amount"}
      [] type = "utility_deposit" -> {"utility_deposit_per_kw", "electricity_load_kw"}

\* the full lease without the inputs of one charge type, or of all of them
ChargeOffExtractions ==
    { Extraction([n \in DOMAIN FullFields |->
                     IF n \in ChargeInputs(ChargeTypes[k]) THEN Absent ELSE FullFields[n]],
                 AllDict) : k \in 1..Len(ChargeTypes) }
    \cup { Extraction([n \in DOMAIN FullFields |->
                          IF \E k \in 1..Len(ChargeTypes) : n \in ChargeInputs(ChargeTypes[k])
                          THEN Absent ELSE FullFields[n]],
                      AllDict) }

\* rent schedules whose first element holds a zero, a null or a sentinel under
\* an earlier key, is empty or is no dict, followed by a second year
ScheduleExtractions ==
    { Extraction([FullFields EXCEPT !["rent_schedule"] = ListV(<< first,
            (YearRow([mglr_monthly |-> NumV(F(300000)), mglr_per_sqft |-> NumV(F(200))])) >>)],
                 AllDict) : first \in { YearRow([mglr_monthly |-> NumV(F(0)),
                         monthly_rent |-> NumV(F(285000))]), YearRow([mglr_monthly |-> Null,
                         monthly_rent |-> NumV(F(0)), rent |-> NumV(F(270000))]),
                         YearRow([monthly_rent |-> StrV("N/A"), rent |-> NumV(F(270000)),
                         mglr_per_sqft |-> NumV(F(0)), rent_per_sqft |-> NumV(F(190))]),
                         YearRow([mglr_monthly |-> NumV(F(0))]),
                         YearRow([mglr_monthly |-> Wrap(NumV(F(285000))),
                         monthly_rent |-> NumV(F(1)), mglr_per_sqft |-> NumStr(F(180)),
                         rent_per_sqft |-> NumV(F(190))]), YearRow([rent |-> NumV(F(270000)),
                         rent_per_sqft |-> NumV(F(190))]), YearRow(EmptyDict), NotADictRow } }

\* rent and CAM amounts whose sum is positive, zero, negative or no number
OutflowExtractions ==
    { Extraction([rent_schedule |-> ListV(<< YearRow([mglr_monthly |-> r]) >>),
                  cam_monthly |-> c], AllDict) :
        r \in {Absent, NumV(F(285000)), NumV(F(0)), NumV(F(-100)), NumV(Inf)}, c \in {Absent,
                NumV(F(59200)), NumV(F(100)), NumV(F(0)), NumV(F(-5)), NumStr(Frac(1, 2)),
                NumV(NaN), NumV(NegInf)} }

\* the (extraction, day) pairs explored: every day for the leases whose
\* outcome depends on it, two days for the rest
DeriveCases ==
    ((E2EExtractions \cup EscalationExtractions \cup DateExtractions) \X {<<2027, 6, 1>>,
            <<2028, 2, 29>>, <<2028, 2, 28>>, <<2033, 8, 4>>, <<2033, 8, 5>>, <<2025, 1, 31>>})
    \cup ((HvacOnlyExtractions \cup OneFieldOffExtractions \cup OneSectionOffExtractions
           \cup ChargeOffExtractions \cup ScheduleExtractions \cup OutflowExtractions)
          \X {<<2027, 6, 1>>, <<2033, 8, 4>>})

InitDerive ==
    /\ \E c \in DeriveCases :
          /\ today = c[2]
          /\ req = [extraction |-> c[1], org_id |-> "org-a", state |-> "received"]
    /\ organizations = << >>
    /\ outlets = << >>
    /\ agreements = << >>
    /\ obligations = << >>
    /\ alerts = << >>
    /\ payment_records = << >>
    /\ resp = Idle
    /\ budget = [runs |-> 0, ticks |-> 0, updates |-> 0]
    /\ gen = << >>

NextDerive == ConfirmAndActivate

SpecDerive == InitDerive /\ [][NextDerive]_vars

----------------------------------------------------------------------------
(* The payment generator served one request at a time, over tables of      *)
(* obligations of the shapes generate_obligations writes, while the        *)
(* calendar moves on.                                                       *)

NoRequest == [state |-> "none"]

RentRow(org_id, due_day) ==
    Obligation(org_id, 1, 1, "rent", "monthly", F(285000), << >>, <<due_day>>,
               <<2025, 3, 18>>, <<2034, 1, 31>>, F(15), <<3>>, <<2028, 3, 18>>)

CamRow(org_id, due_day, end_date) ==
    Obligation(org_id, 2, 2, "cam", "monthly", F(59200), << >>, <<due_day>>,
               <<2025, 2, 1>>, end_date, F(5), NoInt, NoDate)

ElectricityRow(org_id) ==
    Obligation(org_id, 2, 2, "electricity", "monthly", NoNum, <<"metered", F(45)>>,
               <<7>>, NoDate, NoDate, NoNum, NoInt, NoDate)

DepositRow(org_id) ==
    Obligation(org_id, 2, 2, "security_deposit", "one_time", F(1710000), << >>, NoInt,
               <<2025, 2, 1>>, NoDate, NoNum, NoInt, NoDate)

\* the first row is a rent obligation (payment day 7, or -5 as extracted);
\* the second another charge of the same or another organization
GenTables ==
    { <<a, b>> :
        a \in {RentRow("org-a", 7), RentRow("org-a", -5)},
        b \in {CamRow("org-a", 31, <<2025, 3, 31>>), CamRow("org-b", 0, NoDate),
               ElectricityRow("org-b"), DepositRow("org-a"),
               [RentRow("org-b", 1) EXCEPT !.is_active = FALSE]} }

GenDays == {<<2025, 1, 25>>, <<2025, 2, 27>>}

Init ==
    /\ today \in GenDays
    /\ obligations \in GenTables
    /\ req = NoRequest
    /\ organizations = << >>
    /\ outlets = << >>
    /\ agreements = << >>
    /\ alerts = << >>
    /\ payment_records = << >>
    /\ resp = Idle
    /\ budget = [runs |-> 0, ticks |-> 0, updates |-> 0]
    /\ gen = << >>

Next ==
    \/ \E user \in {NoUser, [auth |-> TRUE, role |-> "org_member", org_id |-> "org-a"]},
               months_ahead \in 0..MaxMonthsAhead :
          GeneratePaymentRecords(user, months_ahead)
    \/ \E days \in {1, 30} : Tick(days)

Spec == Init /\ [][Next]_vars

----------------------------------------------------------------------------
(* Two generator requests served at once, by two server processes over the *)
(* same store.  The handler makes one store call at a time: the            *)
(* obligations query, then per period the existence query and, after it,   *)
(* the insert; another process's calls can fall between any two of them.   *)

Workers == {"w1", "w2"}

IdleWorker == [pc |-> "idle", user |-> NoUser, months_ahead |-> 0, now |-> NoDate,
               ids |-> << >>, i |-> 1, m |-> 0, year |-> 0, month |-> 0, created |-> 0]

\* the request arrives: the obligations query
GenStart(w, user, months_ahead) ==
    /\ gen[w].pc = "idle"
    /\ gen' = [gen EXCEPT ![w] = [IdleWorker EXCEPT
                  !.pc = "check", !.user = user, !.months_ahead = months_ahead,
                  !.now = today,
                  !.ids = query_obligations(obligations, get_org_filter(user), 1)]]
    /\ UNCHANGED <<organizations, today, req, outlets, agreements, obligations, alerts,
                   payment_records, resp, budget>>

\* the loops run on to the next existence query and make it; or they end and
\* the handler answers
GenCheck(w) ==
    /\ gen[w].pc = "check"
    /\ LET g == gen[w]
           p == next_period(obligations, g.ids, g.i, g.m, g.months_ahead, g.now)
       IN  IF p.kind = "period"
           THEN /\ gen' = [gen EXCEPT ![w] =
                             IF existing(payment_records, g.ids[p.i], p.year, p.month) # {}
                             THEN [g EXCEPT !.i = p.i, !.m = p.m + 1]
                             ELSE [g EXCEPT !.pc = "insert", !.i = p.i, !.m = p.m,
                                            !.year = p.year, !.month = p.month]]
                /\ resp' = resp
           ELSE /\ gen' = [gen EXCEPT ![w].pc = IF p.kind = "end" THEN "done" ELSE "failed"]
                /\ resp' = [op |-> "generate_payment_records",
                            status |-> IF p.kind = "end" THEN "ok" ELSE "error",
                            created |-> g.created, worker |-> w]
    /\ UNCHANGED <<organizations, today, req, outlets, agreements, obligations, alerts,
                   payment_records, budget>>

\* no row was found: the row is built and inserted
GenInsert(w) ==
    /\ gen[w].pc = "insert"
    /\ LET g == gen[w]
           row == payment_data(obligations[g.ids[g.i]], g.ids[g.i], g.year, g.month, g.now)
       IN  IF row.exc = "none"
           THEN /\ payment_records' = Append(payment_records, row.val)
                /\ gen' = [gen EXCEPT ![w] = [g EXCEPT !.pc = "check", !.m = g.m + 1,
                                                       !.created = g.created + 1]]
                /\ resp' = resp
           ELSE /\ payment_records' = payment_records
                /\ gen' = [gen EXCEPT ![w].pc = "failed"]
                /\ resp' = [op |-> "generate_payment_records", status |-> "error",
                            created |-> g.created, worker |-> w]
    /\ UNCHANGED <<organizations, today, req, outlets, agreements, obligations, alerts, budget>>

InitConc ==
    /\ today \in GenDays
    /\ obligations \in GenTables
    /\ req = NoRequest
    /\ organizations = << >>
    /\ outlets = << >>
    /\ agreements = << >>
    /\ alerts = << >>
    /\ payment_records = << >>
    /\ resp = Idle
    /\ budget = [runs |-> 0, ticks |-> 0, updates |-> 0]
    /\ gen = [w \in Workers |-> IdleWorker]

NextConc ==
    \/ \E w \in Workers, months_ahead \in 1..MaxMonthsAhead : GenStart(w, NoUser, months_ahead)
    \/ \E w \in Workers : GenCheck(w)
    \/ \E w \in Workers : GenInsert(w)

SpecConc == InitConc /\ [][NextConc]_vars

----------------------------------------------------------------------------
(* A lease from confirmation to its payment periods: confirm-and-activate  *)
(* writes the obligations, the generator expands them for callers of       *)
(* several kinds, the calendar moves on, and between requests the rent is  *)
(* revised in the store.  Another organization's obligation and a charge   *)
(* that was ended (is_active false) are in the store from the start.       *)

\* the rent of a row is revised in the store (no handler of main.py writes
\* obligations after line 710; the generator reads the amount at line 1677)
RevisedRent == F(300000)

ReviseRent(i) ==
    /\ i \in 1..Len(obligations)
    /\ obligations[i].type = "rent"
    /\ obligations[i].amount # RevisedRent
    /\ obligations' = [obligations EXCEPT ![i].amount = RevisedRent]
    /\ UNCHANGED <<organizations, today, req, outlets, agreements, alerts, payment_records, resp,
                   budget, gen>>

\* the lease confirmed: every category present, the payment day as extracted
\* (10; 31; -5; 0.5, which int() truncates to 0), and a lease that ends early
LifeExtractions ==
    { Extraction([FullFields EXCEPT !["mglr_payment_day"] = c[1],
                                    !["lease_expiry_date"] = c[2]], AllDict) :
        c \in { <<NumV(F(10)), Iso(2034, 1, 31)>>, <<NumV(F(31)), Iso(2025, 2, 28)>>,
                <<NumV(F(-5)), Iso(2034, 1, 31)>>, <<NumV(Frac(1, 2)), Iso(2034, 1, 31)>> } }

LifeDay == <<2025, 1, 25>>

InitLife ==
    /\ today = LifeDay
    /\ req \in { [extraction |-> x, org_id |-> "org-a", state |-> "received"] :
                   x \in LifeExtractions }
    /\ obligations = << [ElectricityRow("org-b") EXCEPT !.due_day_of_month = NoInt],
                        [CamRow("org-a", 5, NoDate) EXCEPT !.is_active = FALSE] >>
    /\ organizations = << >>
    /\ outlets = << >>
    /\ agreements = << >>
    /\ alerts = << >>
    /\ payment_records = << >>
    /\ resp = Idle
    /\ budget = [runs |-> 0, ticks |-> 0, updates |-> 0]
    /\ gen = << >>

\* the generator is called by a member of org-a and by a member whose profile
\* has no org_id (CurrentUser.org_id is None); the calendar moves on by a month
NextLife ==
    \/ ConfirmAndActivate
    \/ /\ req.state = "served"
       /\ \E user \in {[auth |-> TRUE, role |-> "org_member", org_id |-> "org-a"],
                  [auth |-> TRUE, role |-> "org_member", org_id |-> NoOrg]},
                  months_ahead \in 0..MaxMonthsAhead :
             GeneratePaymentRecords(user, months_ahead)
    \/ /\ req.state = "served"
       /\ Tick(30)
    \/ /\ req.state = "served"
       /\ \E i \in 1..Len(obligations) : ReviseRent(i)

SpecLife == InitLife /\ [][NextLife]_vars

----------------------------------------------------------------------------
(* The field helpers on their own: one field value, and the three helpers  *)
(* applied to it in any order.  resp holds the outcome of the last call:   *)
(* exc the exception that left it, value / num / date what it returned.    *)

BareFieldValues ==
    { Absent, Null,
      StrV(""), StrV("not_found"), StrV("N/A"), StrV("null"),
      StrV("to be agreed"), StrV("n/a"),
      NumV(F(0)), NumV(F(285000)), NumV(Frac(1, 2)), NumV(F(-5)),
      NumStr(F(12)), NumStr(NaN), NumStr(Inf),
      BoolV(TRUE), BoolV(FALSE), BigInt,
      ListV(<< >>), OtherV,
      Iso(2025, 2, 28), Iso(2025, 2, 30),
      DateStr("%d-%m-%Y", <<28, 2, 2025>>), DateStr("%d/%m/%Y", <<29, 2, 2024>>),
      DateStr("%Y/%m/%d", <<2025, 2, 28>>), DateStr("%d %b %Y", <<1, 4, 2025>>),
      DateStr("%d %B %Y", <<31, 4, 2025>>), DateStr("%m/%d/%y", <<2, 28, 25>>) }

FieldValues == BareFieldValues \cup { Wrap(v) : v \in BareFieldValues \ {Absent} }

FieldResp(op, exc, value, num, d) ==
    [op |-> op, status |-> IF exc = "none" THEN "returned" ELSE "raised",
     exc |-> exc, value |-> value, num |-> num, date |-> d]

CallGetVal ==
    /\ resp' = FieldResp("get_val", "none", get_val(req.field_data), NoNum, NoDate)
    /\ UNCHANGED <<organizations, today, req, outlets, agreements, obligations, alerts,
                   payment_records, budget, gen>>

CallGetNum ==
    /\ resp' = IF get_num(req.field_data) = Raised
               THEN FieldResp("get_num", "OverflowError", Null, NoNum, NoDate)
               ELSE FieldResp("get_num", "none", Null, get_num(req.field_data), NoDate)
    /\ UNCHANGED <<organizations, today, req, outlets, agreements, obligations, alerts,
                   payment_records, budget, gen>>

CallGetDate ==
    /\ resp' = FieldResp("get_date", "none", Null, NoNum, get_date(req.field_data))
    /\ UNCHANGED <<organizations, today, req, outlets, agreements, obligations, alerts,
                   payment_records, budget, gen>>

InitFields ==
    /\ today = LifeDay
    /\ req \in {[field_data |-> v, state |-> "received"] : v \in FieldValues}
    /\ organizations = << >>
    /\ outlets = << >>
    /\ agreements = << >>
    /\ obligations = << >>
    /\ alerts = << >>
    /\ payment_records = << >>
    /\ resp = Idle
    /\ budget = [runs |-> 0, ticks |-> 0, updates |-> 0]
    /\ gen = << >>

NextFields == CallGetVal \/ CallGetNum \/ CallGetDate

SpecFields == InitFields /\ [][NextFields]_vars

----------------------------------------------------------------------------
(* update_payment (lines 1568-1593) and the payment generator, one request *)
(* at a time, over a rent row and a deposit row.  A payment record's id is *)
(* its position in the table.                                              *)

valid_statuses == {"paid", "partially_paid", "overdue", "upcoming", "due"}

\* mutant of update_payment: the status is not validated
update_payment_unvalidated(records, payment_id, status, paid_amount, now) ==
    IF payment_id \notin 1..Len(records)
    THEN [http |-> 404, records |-> records]
    ELSE [http |-> 200,
          records |-> [records EXCEPT ![payment_id] =
                          (IF paid_amount # NoNum THEN [paid_amount |-> paid_amount]
                           ELSE [status |-> status])
                          @@ [status |-> status] @@ @]]

\* update_data (lines 1579-1587) written over the row with id payment_id;
\* notes and marked_by are not sent.  paid_at is the day of utcnow().
update_payment(records, payment_id, status, paid_amount, now) ==
    IF status \notin valid_statuses
    THEN [http |-> 400, records |-> records]
    ELSE IF payment_id \notin 1..Len(records)
    THEN [http |-> 404, records |-> records]
    ELSE [http |-> 200,
          records |-> [records EXCEPT ![payment_id] =
                          (IF paid_amount # NoNum THEN [paid_amount |-> paid_amount]
                           ELSE [status |-> status])
                          @@ (IF status = "paid" THEN [paid_at |-> now]
                              ELSE [status |-> status])
                          @@ [status |-> status] @@ @]]

MaxUpdates == 2

UpdatePayment(payment_id, status, paid_amount) ==
    /\ budget.updates < MaxUpdates
    /\ \E upd \in {update_payment(payment_records, payment_id, status, paid_amount, today)} :
          /\ payment_records' = upd.records
          /\ resp' = [op |-> "update_payment",
                      status |-> IF upd.http = 200 THEN "ok" ELSE "error",
                      http |-> upd.http,
                      payment_id |-> payment_id,
                      requested |-> status]
    /\ budget' = [budget EXCEPT !.updates = @ + 1]
    /\ UNCHANGED <<organizations, today, req, outlets, agreements, obligations, alerts, gen>>

InitPay ==
    /\ today = <<2025, 2, 27>>
    /\ obligations = <<RentRow("org-a", 7), DepositRow("org-a")>>
    /\ req = NoRequest
    /\ organizations = << >>
    /\ outlets = << >>
    /\ agreements = << >>
    /\ alerts = << >>
    /\ payment_records = << >>
    /\ resp = Idle
    /\ budget = [runs |-> 0, ticks |-> 0, updates |-> 0]
    /\ gen = << >>

NextPay ==
    \/ \E months_ahead \in {2, MaxMonthsAhead} : GeneratePaymentRecords(NoUser, months_ahead)
    \/ \E payment_id \in {1, 2, Len(payment_records) + 1},
          status \in {"paid", "partially_paid", "upcoming", "cancelled"},
          paid_amount \in {NoNum, F(100000)} :
             UpdatePayment(payment_id, status, paid_amount)
    \/ Tick(30)

SpecPay == InitPay /\ [][NextPay]_vars

----------------------------------------------------------------------------
(* confirm_and_activate (lines 1029-1087) served for two requests at once,  *)
(* one step per statement sent to the store: the select and the insert of   *)
(* get_or_create_demo_org, the outlet insert, the agreement insert, the     *)
(* obligation and alert inserts row by row, and the activity log insert.    *)
(* gen[c] is the state of call c: its request, the ids it has got back, and *)
(* k, the next row of the list it is inserting.  The payment generator runs *)
(* between the steps.  A row's id is its position in the table.             *)

ConfirmDay == <<2027, 6, 1>>

\* a lease with a CAM charge, a deposit or none and an expiry date three
\* weeks ahead, and one whose payment day is NaN
ConfirmLease(cam, deposit, expiry_day) ==
    Extraction([lease_expiry_date |-> Iso(2027, 6, expiry_day),
                cam_monthly |-> NumV(F(cam)),
                security_deposit_amount |-> deposit], AllDict)

FailingLease ==
    Extraction([cam_monthly |-> NumV(F(30000)), mglr_payment_day |-> NumV(NaN)], AllDict)

CallState(extraction, org_id) ==
    [pc |-> IF org_id = NoOrg THEN "select_org" ELSE "outlet",
     req |-> [extraction |-> extraction, org_id |-> org_id],
     org_id |-> org_id, outlet_id |-> 0, agreement_id |-> 0, k |-> 1]

\* the exception leaves the handler as HTTP 500 (lines 1086-1087)
Fail(c, exc) ==
    /\ gen' = [gen EXCEPT ![c].pc = "failed"]
    /\ resp' = [op |-> "confirm_and_activate", status |-> "error", exc |-> exc, call |-> c]

SelectDemoOrg(c) ==
    /\ gen[c].pc = "select_org"
    /\ gen' = [gen EXCEPT ![c] =
                  IF select_demo_org(organizations) # NoOrg
                  THEN [@ EXCEPT !.org_id = select_demo_org(organizations), !.pc = "outlet"]
                  ELSE [@ EXCEPT !.pc = "insert_org"]]
    /\ UNCHANGED <<today, req, organizations, outlets, agreements, obligations, alerts,
                   payment_records, resp, budget>>

InsertDemoOrg(c) ==
    /\ gen[c].pc = "insert_org"
    /\ organizations' = insert_demo_org(organizations)
    /\ gen' = [gen EXCEPT ![c].org_id = NewOrgId(organizations), ![c].pc = "outlet"]
    /\ UNCHANGED <<today, req, outlets, agreements, obligations, alerts, payment_records,
                   resp, budget>>

InsertOutlet(c) ==
    /\ gen[c].pc = "outlet"
    /\ outlets' = Append(outlets,
                         create_outlet_from_extraction(gen[c].req.extraction, gen[c].org_id))
    /\ gen' = [gen EXCEPT ![c].outlet_id = Len(outlets) + 1, ![c].pc = "agreement"]
    /\ UNCHANGED <<today, req, organizations, agreements, obligations, alerts,
                   payment_records, resp, budget>>

\* mutant of InsertAgreement: the agreement is attached to the newest outlet
InsertAgreementNewestOutlet(c) ==
    /\ gen[c].pc = "agreement"
    /\ \E agr \in {create_agreement_record(gen[c].req.extraction, gen[c].org_id,
                                            Len(outlets))} :
          IF agr.exc # "none"
          THEN Fail(c, agr.exc) /\ UNCHANGED agreements
          ELSE /\ agreements' = Append(agreements, agr.val)
               /\ gen' = [gen EXCEPT ![c].agreement_id = Len(agreements) + 1,
                                      ![c].pc = "obligations"]
               /\ UNCHANGED resp
    /\ UNCHANGED <<today, req, organizations, outlets, obligations, alerts, payment_records,
                   budget>>

InsertAgreement(c) ==
    /\ gen[c].pc = "agreement"
    /\ \E agr \in {create_agreement_record(gen[c].req.extraction, gen[c].org_id,
                                            gen[c].outlet_id)} :
          IF agr.exc # "none"
          THEN Fail(c, agr.exc) /\ UNCHANGED agreements
          ELSE /\ agreements' = Append(agreements, agr.val)
               /\ gen' = [gen EXCEPT ![c].agreement_id = Len(agreements) + 1,
                                      ![c].pc = "obligations"]
               /\ UNCHANGED resp
    /\ UNCHANGED <<today, req, organizations, outlets, obligations, alerts, payment_records,
                   budget>>

\* generate_obligations: it raises before its first insert, inserts row k, or
\* returns after the last row
InsertObligation(c) ==
    /\ gen[c].pc = "obligations"
    /\ \E obl \in {generate_obligations(gen[c].req.extraction, gen[c].agreement_id,
                                         gen[c].outlet_id, gen[c].org_id)} :
          IF obl.exc # "none"
          THEN Fail(c, obl.exc) /\ UNCHANGED obligations
          ELSE IF gen[c].k <= Len(obl.val)
          THEN /\ obligations' = Append(obligations, obl.val[gen[c].k])
               /\ gen' = [gen EXCEPT ![c].k = @ + 1]
               /\ UNCHANGED resp
          ELSE /\ gen' = [gen EXCEPT ![c].k = 1, ![c].pc = "alerts"]
               /\ UNCHANGED <<obligations, resp>>
    /\ UNCHANGED <<today, req, organizations, outlets, agreements, alerts, payment_records,
                   budget>>

\* generate_alerts: it raises or loops for ever before its first insert,
\* inserts row k, or returns after the last row
InsertAlert(c) ==
    /\ gen[c].pc = "alerts"
    /\ \E alr \in {generate_alerts(gen[c].req.extraction, gen[c].agreement_id,
                                    gen[c].outlet_id, gen[c].org_id, today)} :
          IF alr.exc = "diverges"
          THEN gen' = [gen EXCEPT ![c].pc = "hang"] /\ UNCHANGED <<alerts, resp>>
          ELSE IF alr.exc # "none"
          THEN Fail(c, alr.exc) /\ UNCHANGED alerts
          ELSE IF gen[c].k <= Len(alr.val)
          THEN /\ alerts' = Append(alerts, alr.val[gen[c].k])
               /\ gen' = [gen EXCEPT ![c].k = @ + 1]
               /\ UNCHANGED resp
          ELSE /\ gen' = [gen EXCEPT ![c].k = 1, ![c].pc = "log"]
               /\ UNCHANGED <<alerts, resp>>
    /\ UNCHANGED <<today, req, organizations, outlets, agreements, obligations,
                   payment_records, budget>>

\* the activity_log insert (table not kept) and the answer
LogActivity(c) ==
    /\ gen[c].pc = "log"
    /\ gen' = [gen EXCEPT ![c].pc = "done"]
    /\ resp' = [op |-> "confirm_and_activate", status |-> "activated", exc |-> "none",
                call |-> c]
    /\ UNCHANGED <<today, req, organizations, outlets, agreements, obligations, alerts,
                   payment_records, budget>>

InitConfirm ==
    /\ today = ConfirmDay
    /\ req = NoRequest
    /\ gen \in { <<CallState(ConfirmLease(59200, NumV(F(355200)), 20), o[1]),
                     CallState(ConfirmLease(45000, Absent, 25), o[2])>> :
                   o \in {<<NoOrg, NoOrg>>, <<"org-a", "org-b">>} }
              \cup { <<CallState(FailingLease, o[1]),
                       CallState(ConfirmLease(45000, Absent, 25), o[2])>> :
                     o \in {<<NoOrg, "org-b">>, <<"org-a", NoOrg>>} }
    /\ organizations = << >>
    /\ outlets = << >>
    /\ agreements = << >>
    /\ obligations = << >>
    /\ alerts = << >>
    /\ payment_records = << >>
    /\ resp = Idle
    /\ budget = [runs |-> 0, ticks |-> 0, updates |-> 0]

NextConfirm ==
    \/ \E c \in 1..2 : SelectDemoOrg(c)
    \/ \E c \in 1..2 : InsertDemoOrg(c)
    \/ \E c \in 1..2 : InsertOutlet(c)
    \/ \E c \in 1..2 : InsertAgreement(c)
    \/ \E c \in 1..2 : InsertObligation(c)
    \/ \E c \in 1..2 : InsertAlert(c)
    \/ \E c \in 1..2 : LogActivity(c)
    \/ GeneratePaymentRecords(NoUser, 1)

SpecConfirm == InitConfirm /\ [][NextConfirm]_vars

----------------------------------------------------------------------------
(* Properties of the payment generator, checked under Spec and SpecConc. *)

SamePeriod(a, b) ==
    /\ a.obligation_id = b.obligation_id
    /\ a.period_year = b.period_year
    /\ a.period_month = b.period_month

OnePeriodPerTriple ==
    \A i, j \in 1..Len(payment_records) :
        SamePeriod(payment_records[i], payment_records[j]) => i = j

Generated == resp.op = "generate_payment_records"

\* C1: after any sequence of generator runs, whatever their months_ahead and
\* however the day moved on between them, the store holds at most one
\* payment record per (obligation_id, period_year, period_month).
C1_OnePeriodPerTriple == OnePeriodPerTriple

\* C1 witness: a later run, after the day moved on, added rows and also met
\* periods that already had one (it added fewer rows than it would have added
\* to an empty table).
C1_Witness ==
    /\ Generated /\ resp.status = "ok" /\ resp.today = today
    /\ budget.runs = 2 /\ budget.ticks = 1
    /\ resp.inserted > 0
    /\ resp.inserted
         < run_generator(obligations,
                         query_obligations(obligations, get_org_filter(resp.user), 1),
                         1, 0, resp.months_ahead, today, << >>, 0).created

\* C2: a run that repeats the request before it (same caller, same
\* months_ahead, same day, same obligations) adds no row and returns
\* created = 0; and the count every run returns is the number of rows it
\* added.
C2_SecondRunCreatesNothing ==
    Generated =>
        /\ resp.repeat => (resp.status = "ok" /\ resp.created = 0 /\ resp.inserted = 0)
        /\ resp.status = "ok" => resp.created = resp.inserted

AllWorkersDone == \A w \in Workers : gen[w].pc = "done"

\* C3: when two generator runs overlap, every interleaving ends with one
\* payment record per (obligation_id, period_year, period_month).
C3_OverlappingRunsKeepOnePeriod == AllWorkersDone => OnePeriodPerTriple

----------------------------------------------------------------------------
(* Properties of the derivation, checked under SpecDerive. *)

Served == resp.op = "confirm_and_activate"
Activated == Served /\ resp.status = "activated"

AlertsOfType(type) == { i \in 1..Len(alerts) : alerts[i].type = type }

\* the fields of the request being served, normalised
ReqLeaseTerm == get_section(req.extraction, "lease_term")
ReqRent == get_section(req.extraction, "rent")
ReqBase == OrDate(get_date(Get(ReqLeaseTerm, "rent_commencement_date")),
                  get_date(Get(ReqLeaseTerm, "lease_commencement_date")))
ReqFreq == get_num(Get(ReqRent, "escalation_frequency_years"))

\* C4: no alert in the store has a trigger_date before the day it was
\* generated on, whatever its type.
C4_NoPastAlerts ==
    \A i \in 1..Len(alerts) : ~DateLT(alerts[i].trigger_date, today)

\* C4 witness: a lease whose 180-day lease_expiry alert triggers exactly today
\* was activated, together with rent_due alerts.
C4_Witness ==
    /\ Activated
    /\ \E i \in AlertsOfType("lease_expiry") :
          alerts[i].trigger_date = today /\ alerts[i].lead_days = 180
    /\ AlertsOfType("rent_due") # {}

\* C5: every alert's trigger_date is its reference_date minus lead_days
\* calendar days.
C5_TriggerIsReferenceMinusLead ==
    \A i \in 1..Len(alerts) :
        toordinal(alerts[i].trigger_date)
            = toordinal(alerts[i].reference_date) - alerts[i].lead_days

\* C5 witness: one activation produced alerts of all four types.
C5_Witness ==
    /\ Activated
    /\ \A type \in {"lease_expiry", "lock_in_expiry", "escalation", "rent_due"} :
          AlertsOfType(type) # {}

\* C6: among the lease_expiry alerts of one agreement a larger lead_days has a
\* strictly earlier trigger_date, and no trigger_date is after the
\* reference_date.
C6_LeaseExpiryOrdering ==
    \A i \in AlertsOfType("lease_expiry") :
        /\ DateLE(alerts[i].trigger_date, alerts[i].reference_date)
        /\ \A j \in AlertsOfType("lease_expiry") :
              (alerts[i].agreement_id = alerts[j].agreement_id
               /\ alerts[i].lead_days > alerts[j].lead_days)
              => DateLT(alerts[i].trigger_date, alerts[j].trigger_date)

\* C6 witness: all four lease_expiry leads were generated for one lease.
C6_Witness ==
    /\ Activated
    /\ { alerts[i].lead_days : i \in AlertsOfType("lease_expiry") } = {180, 90, 30, 7}

\* a step is n years, so no more steps than this reach today
Steps(base, n, now) ==
    1..(IF now[1] > base[1] /\ n >= 1 THEN (now[1] - base[1]) \div n + 1 ELSE 1)

\* base + relativedelta(years=n), for dates inside the calendar
PlusYears(d, n) == AddRel(d, n, 0).val

\* the first date base + k * freq, k >= 1, that is on or after now
FirstMultipleOnOrAfter(base, freq, now) ==
    LET k == CHOOSE k \in Steps(base, freq, now) :
                /\ ~DateLT(PlusYears(base, k * freq), now)
                /\ \A j \in 1..(k - 1) : DateLT(PlusYears(base, j * freq), now)
    IN  PlusYears(base, k * freq)

\* base after k additions of n years, one at a time: 29 February becomes
\* 28 February at the first year that is no leap year, and stays
StepYears(base, n, k) ==
    <<base[1] + k * n, base[2],
      IF base[2] = 2 /\ base[3] = 29 /\ (\E j \in 1..k : ~IsLeap(base[1] + j * n))
      THEN 28 ELSE base[3]>>

\* C7 as claimed: for a whole-number frequency, the reference_date of every
\* escalation alert is the first date of the form base + k * frequency
\* (k >= 1) that is on or after today.
C7_FirstMultiple ==
    \A i \in AlertsOfType("escalation") :
        (ReqFreq.k = "fin" /\ ReqFreq.den = 1 /\ ReqFreq.num >= 1)
        => alerts[i].reference_date = FirstMultipleOnOrAfter(ReqBase, ReqFreq.num, today)

\* C7 amended: the reference_date of every escalation alert is the first date
\* on or after today reached by adding int(frequency) years to the base one
\* addition at a time (k >= 1 additions, each clamping 29 February to
\* 28 February in a common year); base 2024-01-15, frequency 3 and today
\* 2027-06-01 give 2030-01-15.
C7_FirstStepOnOrAfter ==
    /\ \A i \in AlertsOfType("escalation") :
          \E k \in Steps(ReqBase, IntOf(ReqFreq).val, today) :
              /\ alerts[i].reference_date = StepYears(ReqBase, IntOf(ReqFreq).val, k)
              /\ ~DateLT(alerts[i].reference_date, today)
              /\ k > 1 => DateLT(StepYears(ReqBase, IntOf(ReqFreq).val, k - 1), today)
    /\ (Activated /\ ReqBase = <<2024, 1, 15>> /\ ReqFreq = F(3) /\ today = <<2027, 6, 1>>)
       => { alerts[i].reference_date : i \in AlertsOfType("escalation") } = {<<2030, 1, 15>>}

\* C7 witness: the example of the claim ran, and its escalation alerts refer
\* to 2030-01-15, two steps after the base.
C7_Witness ==
    /\ Activated /\ ReqBase = <<2024, 1, 15>> /\ ReqFreq = F(3) /\ today = <<2027, 6, 1>>
    /\ \E i \in AlertsOfType("escalation") : alerts[i].reference_date = <<2030, 1, 15>>

\* C8: generate_obligations and generate_alerts raise for no extraction: a
\* request never ends in an error that left one of them.
C8_DerivationNeverRaises ==
    Served => ~(resp.status = "error"
                /\ resp.failed_in \in {"generate_obligations", "generate_alerts"})

HvacOnly == req.extraction \in HvacOnlyExtractions

\* C9: when only hvac_rate_per_sqft and covered_area_sqft are present, exactly
\* one obligation is created, of type hvac, with amount = rate * covered area.
C9_HvacOnlyOneObligation ==
    (Served /\ HvacOnly)
    => /\ Len(obligations) = 1
       /\ obligations[1].type = "hvac"
       /\ obligations[1].amount
            = Mul(get_num(Get(get_section(req.extraction, "charges"), "hvac_rate_per_sqft")),
                  get_num(Get(get_section(req.extraction, "premises"), "covered_area_sqft")))

E2E == req.extraction \in E2EExtractions

\* C10: the end-to-end lease (commencement 2025-02-01, rent commencement
\* 2025-03-18, lock-in 36 months, expiry 2034-01-31, first-year rent 285000,
\* CAM 59200) activates into an agreement with total_monthly_outflow 344200
\* and lock_in_end_date 2028-02-01 and exactly two obligations, one rent and
\* one cam.
C10_EndToEnd ==
    (Served /\ E2E)
    => /\ resp.status = "activated"
       /\ Len(agreements) = 1
       /\ agreements[1].total_monthly_outflow = F(344200)
       /\ agreements[1].lock_in_end_date = <<2028, 2, 1>>
       /\ Len(obligations) = 2
       /\ obligations[1].type = "rent" /\ obligations[1].amount = F(285000)
       /\ obligations[2].type = "cam" /\ obligations[2].amount = F(59200)
       /\ \A i \in 1..2 : obligations[i].agreement_id = resp.agreement_id

\* C10 witness: the end-to-end lease, written with day-first dates and the
\* amount under the key "rent", was activated.
C10_Witness ==
    /\ Activated /\ E2E
    /\ Get(ReqLeaseTerm, "lease_expiry_date").shape = "%d/%m/%Y"
    /\ Len(obligations) = 2

----------------------------------------------------------------------------
(* Properties of a lease's payment periods, checked under SpecLife. *)

\* the positions of the rows the step added to payment_records
Added == (Len(payment_records) + 1)..Len(payment_records')

OneTimeWithoutDueDay ==
    \A i \in 1..Len(obligations) :
        obligations[i].frequency = "one_time" => obligations[i].due_day_of_month = NoInt

\* C11: no step adds a payment record for an obligation that is one_time or
\* not active when the step is taken, and every one_time obligation in the
\* store has no due_day_of_month.
C11_OnlyActiveRecurringExpanded ==
    /\ [][\A k \in Added :
            /\ obligations[payment_records'[k].obligation_id].is_active
            /\ obligations[payment_records'[k].obligation_id].frequency # "one_time"]_vars
    /\ []OneTimeWithoutDueDay

\* C11 witness: a member of org-a ran the generator and got new periods while
\* org-a holds one_time obligations and an obligation that is not active.
C11_Witness ==
    /\ Generated /\ resp.status = "ok" /\ resp.inserted > 0
    /\ resp.user.org_id = "org-a"
    /\ \E i, j \in 1..Len(obligations) :
          /\ obligations[i].org_id = "org-a" /\ obligations[i].frequency = "one_time"
          /\ obligations[j].org_id = "org-a" /\ ~obligations[j].is_active
          /\ obligations[j].frequency # "one_time"

\* the rows the last generator run added (no other step adds rows)
LastAdded == (Len(payment_records) - resp.inserted + 1)..Len(payment_records)

\* the calendar month m months after the month of date d
MonthPlus(d, m) == <<d[1] + ((d[2] - 1 + m) \div 12), ((d[2] - 1 + m) % 12) + 1>>

MonthIndex(y, m) == y * 12 + m

\* (y, m) lies in the obligation's validity window, at month granularity
InWindow(obl, y, m) ==
    /\ obl.start_date = NoDate
         \/ MonthIndex(obl.start_date[1], obl.start_date[2]) <= MonthIndex(y, m)
    /\ obl.end_date = NoDate
         \/ MonthIndex(y, m) <= MonthIndex(obl.end_date[1], obl.end_date[2])

\* the obligations a caller's run is to serve
InScope(user) ==
    { i \in 1..Len(obligations) :
        /\ obligations[i].is_active
        /\ obligations[i].frequency # "one_time"
        /\ (get_org_filter(user) = NoOrg \/ obligations[i].org_id = get_org_filter(user)) }

PeriodsInRunWindow ==
    \A k \in LastAdded :
        /\ \E m \in 0..(resp.months_ahead - 1) :
              <<payment_records[k].period_year, payment_records[k].period_month>>
                 = MonthPlus(resp.today, m)
        /\ InWindow(obligations[payment_records[k].obligation_id],
                    payment_records[k].period_year, payment_records[k].period_month)

WindowMonthsHavePeriods ==
    \A i \in InScope(resp.user), m \in 0..(resp.months_ahead - 1) :
        InWindow(obligations[i], MonthPlus(resp.today, m)[1], MonthPlus(resp.today, m)[2])
        => \E k \in 1..Len(payment_records) :
              /\ payment_records[k].obligation_id = i
              /\ <<payment_records[k].period_year, payment_records[k].period_month>>
                    = MonthPlus(resp.today, m)

\* C12: after a generator run, every period it added is one of the
\* months_ahead months from today's month and inside its obligation's window,
\* and every in-window month of every obligation in the caller's scope has a
\* period.
C12_WindowMonthsGetPeriods ==
    (Generated /\ resp.today = today) => (PeriodsInRunWindow /\ WindowMonthsHavePeriods)

\* C13: a period is added with the due_amount its obligation has at that
\* step, and no step changes the due_amount of a period already in the store,
\* whatever happened to the obligation's amount since.
C13_DueAmountFixedAtGeneration ==
    [][/\ \A k \in 1..Len(payment_records) :
             payment_records'[k].due_amount = payment_records[k].due_amount
       /\ \A k \in Added :
             payment_records'[k].due_amount
                = obligations[payment_records'[k].obligation_id].amount]_vars

\* C13 witness: the rent was revised after a period was generated and the
\* generator ran again: the older period still carries the old amount, a later
\* period of the same obligation the revised one.
C13_Witness ==
    \E i, j \in 1..Len(payment_records) :
        /\ i < j
        /\ payment_records[i].obligation_id = payment_records[j].obligation_id
        /\ payment_records[j].due_amount = RevisedRent
        /\ payment_records[i].due_amount # RevisedRent
        /\ obligations[payment_records[i].obligation_id].amount = RevisedRent

----------------------------------------------------------------------------
(* Properties of the field helpers, checked under SpecFields. *)

\* the value of the field with its {value: ...} wrapper removed
Inner(field_data) == [field_data EXCEPT !.w = FALSE]

IsSentinel(v) == v.t = "str" /\ v.s \in Sentinels

\* absent, null or a sentinel, bare or wrapped
Missing(field_data) ==
    Inner(field_data).t \in {"absent", "null"} \/ IsSentinel(Inner(field_data))

\* float() does not convert the value
MalformedNumber(field_data) == float_of(Inner(field_data)).exc # "none"

\* not a string, or a string none of the six formats parses
MalformedDate(field_data) ==
    \/ Inner(field_data).t \notin {"str", "numstr", "datestr"}
    \/ Inner(field_data).t \in {"str", "numstr"}
    \/ \A i \in 1..Len(DateFormats) : strptime(Inner(field_data), DateFormats[i]) = NoDate

\* C14: for a field value that is absent, null, a sentinel (bare or wrapped)
\* or malformed for the target type, get_val / get_num / get_date return None
\* and do not raise; get_val never returns a sentinel.
C14_MalformedGivesNone ==
    /\ resp.op = "get_val" =>
          /\ resp.exc = "none"
          /\ ~IsSentinel(resp.value)
          /\ Missing(req.field_data) => resp.value = Null
    /\ resp.op = "get_num" =>
          ((Missing(req.field_data) \/ MalformedNumber(req.field_data))
              => (resp.exc = "none" /\ resp.num = NoNum))
    /\ resp.op = "get_date" =>
          ((Missing(req.field_data) \/ MalformedDate(req.field_data))
              => (resp.exc = "none" /\ resp.date = NoDate))

----------------------------------------------------------------------------
(* Properties of the obligations and the agreement of one lease, checked    *)
(* under SpecDerive.                                                        *)

\* the section a field is read from
SectionOf(name) == CHOOSE n \in SectionNames : name \in SectionFields(n)

\* the field of the request being served, as the derivation reads it
ReqField(name) == Get(get_section(req.extraction, SectionOf(name)), name)

\* rent_schedule[0] of the request when it is a dict, else the empty dict
ReqFirstYear ==
    LET rent_schedule == get_val(ReqField("rent_schedule"))
    IN  IF rent_schedule.t = "list" /\ Len(rent_schedule.items) > 0
           /\ rent_schedule.items[1].isdict
        THEN rent_schedule.items[1].f
        ELSE EmptyDict

\* every input of the charge type resolves to None
InputsAbsent(type) ==
    IF type = "rent"
    THEN \A k \in {"mglr_monthly", "monthly_rent", "rent"} :
            get_num(Get(ReqFirstYear, k)) = NoNum
    ELSE \A n \in ChargeInputs(type) : get_num(ReqField(n)) = NoNum

TypeRank(type) == CHOOSE k \in 1..Len(ChargeTypes) : ChargeTypes[k] = type

\* C15: every obligation in the store has an amount or a formula; a charge
\* type whose inputs are all absent has no obligation, and a lease that is
\* complete but for the inputs of charge types activates without error; the
\* obligations of a lease are stored in the order rent, cam, hvac,
\* electricity, security_deposit, cam_deposit, utility_deposit.
C15_ObligationsResolvedAndOrdered ==
    /\ \A i \in 1..Len(obligations) :
          obligations[i].amount # NoNum \/ obligations[i].amount_formula # << >>
    /\ \A k \in 1..Len(ChargeTypes) :
          InputsAbsent(ChargeTypes[k])
          => \A i \in 1..Len(obligations) : obligations[i].type # ChargeTypes[k]
    /\ (Served /\ req.extraction \in ChargeOffExtractions) => resp.status = "activated"
    /\ \A i, j \in 1..Len(obligations) :
          i < j => TypeRank(obligations[i].type) < TypeRank(obligations[j].type)

\* C15 witness: the complete lease without its HVAC inputs was activated and
\* the six other obligations were stored.
C15_Witness ==
    /\ Activated
    /\ InputsAbsent("hvac")
    /\ Len(obligations) = 6
    /\ obligations[3].type = "electricity" /\ obligations[3].amount = NoNum

\* the first value that is not None among the keys, in order, of
\* rent_schedule[0]
RECURSIVE FirstNonNull(_, _)
FirstNonNull(keys, i) ==
    IF i > Len(keys) THEN NoNum
    ELSE IF get_num(Get(ReqFirstYear, keys[i])) # NoNum
         THEN get_num(Get(ReqFirstYear, keys[i]))
    ELSE FirstNonNull(keys, i + 1)

RentKeyOrder == <<"mglr_monthly", "monthly_rent", "rent">>
RateKeyOrder == <<"mglr_per_sqft", "rent_per_sqft">>

\* C16: the agreement's monthly_rent is the first non-null value among the
\* keys mglr_monthly, monthly_rent, rent of rent_schedule[0] (a present 0
\* included), its rent_per_sqft the first non-null among mglr_per_sqft,
\* rent_per_sqft, and the rent obligation carries the same monthly rent; no
\* later element of rent_schedule is read.
C16_FirstNonNullRentWins ==
    Activated
    => /\ agreements[1].monthly_rent = FirstNonNull(RentKeyOrder, 1)
       /\ agreements[1].rent_per_sqft = FirstNonNull(RateKeyOrder, 1)
       /\ \A i \in 1..Len(obligations) :
             obligations[i].type = "rent"
             => obligations[i].amount = FirstNonNull(RentKeyOrder, 1)

\* a term of the sum: a missing amount counts as 0
Term(x) == IF x = NoNum THEN F(0) ELSE x

\* monthly_rent + cam_monthly of the stored agreement
OutflowSum == Add(Term(agreements[1].monthly_rent), Term(agreements[1].cam_monthly))

\* the sum is 0 or negative
ZeroOrNegative(x) == x.k \in {"fin", "inf"} /\ x.num <= 0

\* C17 as claimed: total_monthly_outflow is monthly_rent + cam_monthly with a
\* missing term counted as 0, and it is omitted exactly when that sum is 0 or
\* negative.
C17_OmittedWhenZeroOrNegative ==
    Len(agreements) = 1
    => /\ agreements[1].total_monthly_outflow = NoNum <=> ZeroOrNegative(OutflowSum)
       /\ agreements[1].total_monthly_outflow # NoNum
          => agreements[1].total_monthly_outflow = OutflowSum

\* C17 amended: total_monthly_outflow is monthly_rent + cam_monthly with a
\* missing term counted as 0, and it is omitted exactly when that sum is not
\* greater than 0: when it is 0, negative or not a number (NaN).
C17_OmittedUnlessPositive ==
    Len(agreements) = 1
    => /\ agreements[1].total_monthly_outflow = NoNum
          <=> (ZeroOrNegative(OutflowSum) \/ OutflowSum = NaN)
       /\ agreements[1].total_monthly_outflow # NoNum
          => agreements[1].total_monthly_outflow = OutflowSum

\* C17 witness: an agreement whose CAM amount is NaN was stored with a
\* monthly rent and without total_monthly_outflow.
C17_Witness ==
    /\ Activated
    /\ agreements[1].monthly_rent = F(285000)
    /\ agreements[1].cam_monthly = NaN
    /\ OutflowSum = NaN
    /\ agreements[1].total_monthly_outflow = NoNum

ReqExpiry == get_date(Get(ReqLeaseTerm, "lease_expiry_date"))

\* the request got as far as calling generate_alerts
AlertsCalled ==
    Served /\ resp.failed_in \notin {"create_agreement_record", "generate_obligations"}

\* C18: once generate_alerts has been called for a lease whose
\* lease_expiry_date normalizes, there is a lease_expiry alert with lead L,
\* for L in {180, 90, 30, 7}, exactly when lease_expiry_date - L days is on or
\* after today; its severity is high when L <= 30 and medium otherwise, and
\* no lease_expiry alert has another lead.
C18_LeaseExpiryLeads ==
    (AlertsCalled /\ ReqExpiry # NoDate)
    => /\ \A L \in {180, 90, 30, 7} :
             (\E i \in AlertsOfType("lease_expiry") : alerts[i].lead_days = L)
             <=> toordinal(ReqExpiry) - L >= toordinal(today)
       /\ \A i \in AlertsOfType("lease_expiry") :
             /\ alerts[i].lead_days \in {180, 90, 30, 7}
             /\ alerts[i].severity = IF alerts[i].lead_days <= 30 THEN "high" ELSE "medium"

----------------------------------------------------------------------------
(* Properties of the generator's caller and of the periods' dates, checked  *)
(* under SpecLife.                                                          *)

\* C19: a generator run made by an authenticated user who is no
\* platform_admin adds periods of that user's organization only, also when
\* the user's profile has no org_id.
C19_RunStaysInOwnOrg ==
    (Generated /\ resp.user.auth /\ resp.user.role # "platform_admin")
    => \A k \in LastAdded : payment_records[k].org_id = resp.user.org_id

\* the due day of the claim: min(due_day_of_month, 28), 1 when there is none
ClaimedDueDay(obl) ==
    IF obl.due_day_of_month = NoInt THEN 1 ELSE Min(obl.due_day_of_month[1], 28)

\* the due day of the amended claim: 1 also when due_day_of_month is 0
AmendedDueDay(obl) ==
    IF obl.due_day_of_month = NoInt \/ obl.due_day_of_month[1] = 0 THEN 1
    ELSE Min(obl.due_day_of_month[1], 28)

\* overdue before today, due up to seven days ahead, upcoming after that
ClaimedStatus(due_date, now) ==
    IF toordinal(due_date) < toordinal(now) THEN "overdue"
    ELSE IF toordinal(due_date) - toordinal(now) <= 7 THEN "due"
    ELSE "upcoming"

\* the periods a step adds have the status of the claim, computed from their
\* due_date and the day of the run
AddedStatusAsClaimed ==
    \A k \in Added :
        /\ payment_records'[k].status = ClaimedStatus(payment_records'[k].due_date, today)
        /\ payment_records'[k].status \notin {"paid", "partially_paid"}

\* C20 as claimed: every period the generator adds has due_date =
\* (period_year, period_month, min(due_day_of_month, 28)), with due day 1 when
\* the obligation has none, and status overdue / due / upcoming by its
\* due_date, never paid or partially_paid.
C20_DueDateFromDueDay ==
    [][/\ \A k \in Added :
             payment_records'[k].due_date
                = <<payment_records'[k].period_year, payment_records'[k].period_month,
                    ClaimedDueDay(obligations[payment_records'[k].obligation_id])>>
       /\ AddedStatusAsClaimed]_vars

\* C20 amended: every period the generator adds has due_date =
\* (period_year, period_month, min(due_day_of_month, 28)), with due day 1 when
\* the obligation has none or has 0, and status overdue when due_date < today,
\* due when today <= due_date <= today + 7 days, upcoming otherwise, never
\* paid or partially_paid.
C20_DueDateFromDueDayOrFirst ==
    [][/\ \A k \in Added :
             payment_records'[k].due_date
                = <<payment_records'[k].period_year, payment_records'[k].period_month,
                    AmendedDueDay(obligations[payment_records'[k].obligation_id])>>
       /\ AddedStatusAsClaimed]_vars

\* C20 witness: an obligation with due_day_of_month 0 has periods due on the
\* first of the month, one of each status, and so has an obligation without
\* due_day_of_month.
C20_Witness ==
    \E i, j \in 1..Len(obligations) :
        /\ obligations[i].due_day_of_month = <<0>>
        /\ obligations[j].due_day_of_month = NoInt
        /\ \A st \in {"overdue", "due", "upcoming"} :
              \E k \in 1..Len(payment_records) :
                  /\ payment_records[k].obligation_id = i
                  /\ payment_records[k].due_date[3] = 1
                  /\ payment_records[k].status = st
        /\ \E k \in 1..Len(payment_records) :
              /\ payment_records[k].obligation_id = j
              /\ payment_records[k].due_date[3] = 1

----------------------------------------------------------------------------
(* Properties of the rent_due alerts and of the alert categories, checked   *)
(* under SpecDerive.                                                        *)

\* int(payment day or 7) of the request
ReqPaymentDay == payment_day_of(ReqRent).val

\* the day count of day min(payment_day, 28) of the m-th month from today's
RentDueOrdinal(m) ==
    toordinal(<<MonthPlus(today, m)[1], MonthPlus(today, m)[2], 1>>)
        + Min(ReqPaymentDay, 28) - 1

\* C21: once generate_alerts has been called for a lease with a commencement
\* date, the rent_due alerts are exactly one for each of the 6 months from
\* today's month whose due date, day min(payment_day, 28) of the month, minus
\* 7 days is on or after today; each has lead_days 7 and severity medium.
C21_RentDueSixMonths ==
    (AlertsCalled /\ ReqBase # NoDate)
    => /\ \A m \in 0..5 :
             (RentDueOrdinal(m) - 7 >= toordinal(today))
             <=> \E i \in AlertsOfType("rent_due") :
                    toordinal(alerts[i].reference_date) = RentDueOrdinal(m)
       /\ \A i \in AlertsOfType("rent_due") :
             /\ alerts[i].lead_days = 7
             /\ alerts[i].severity = "medium"
             /\ \E m \in 0..5 : toordinal(alerts[i].reference_date) = RentDueOrdinal(m)
             /\ \A j \in AlertsOfType("rent_due") :
                   (j # i /\ alerts[j].agreement_id = alerts[i].agreement_id)
                   => alerts[j].reference_date # alerts[i].reference_date

\* the identifiers the served call gave its records
RespIds == [org_id |-> req.org_id, outlet_id |-> resp.outlet_id,
            agreement_id |-> resp.agreement_id]

\* the stored alerts of one category
StoredAlerts(type) == { alerts[i] : i \in AlertsOfType(type) }

\* what a category's block yields from its own source fields and today
OwnAlerts(type) ==
    CASE type = "lease_expiry" -> lease_expiry_alerts(RespIds, ReqExpiry, today)
      [] type = "lock_in_expiry" ->
            lock_in_alerts(RespIds, get_num(Get(ReqLeaseTerm, "lock_in_months")),
                           get_date(Get(ReqLeaseTerm, "lease_commencement_date")), today)
      [] type = "escalation" ->
            escalation_alerts(RespIds, get_num(Get(ReqRent, "escalation_percentage")),
                              ReqFreq,
                              get_date(Get(ReqLeaseTerm, "rent_commencement_date")),
                              get_date(Get(ReqLeaseTerm, "lease_commencement_date")),
                              today)

\* C22: the alerts of a category depend on that category's source fields and
\* today only: whenever generate_alerts has been called and the category's
\* own computation ends without an exception, the stored alerts of the
\* category are the ones its source fields give, whatever the other fields of
\* the extraction are.
C22_CategoriesIndependent ==
    AlertsCalled
    => \A type \in {"lease_expiry", "lock_in_expiry", "escalation"} :
          OwnAlerts(type).exc = "none"
          => StoredAlerts(type)
                = { OwnAlerts(type).val[k] : k \in 1..Len(OwnAlerts(type).val) }

----------------------------------------------------------------------------
(* Properties of the obligations' dates, checked under SpecDerive. *)

ObligationsOfType(type) == { i \in 1..Len(obligations) : obligations[i].type = type }

\* start + f years for a finite number f of years, whole or not: f years are
\* 12 * f months
PlusYearsOf(start, f) == AddRel(start, 0, (f.num * 12) \div f.den)

ReqLeaseComm == get_date(Get(ReqLeaseTerm, "lease_commencement_date"))

\* C23: the rent obligation's next_escalation_date is start +
\* escalation_frequency_years years, start being rent_commencement_date or
\* else lease_commencement_date, also when that date is past; the cam
\* obligation starts at lease_commencement_date when there is one and has no
\* next_escalation_date.
C23_NextEscalationDate ==
    /\ \A i \in ObligationsOfType("rent") :
          (ReqBase # NoDate /\ ReqFreq.k = "fin" /\ ReqFreq.num # 0
           /\ PlusYearsOf(ReqBase, ReqFreq).exc = "none")
          => obligations[i].next_escalation_date = PlusYearsOf(ReqBase, ReqFreq).val
    /\ \A i \in ObligationsOfType("cam") :
          /\ obligations[i].next_escalation_date = NoDate
          /\ ReqLeaseComm # NoDate => obligations[i].start_date = ReqLeaseComm

\* start + int(f) years, NoDate when there is no start, when f is absent, 0
\* or no finite number, or when the date leaves the calendar
PlusWholeYears(start, f) ==
    IF start = NoDate \/ ~Truthy(f) \/ f.k # "fin" THEN NoDate
    ELSE IF AddRel(start, IntOf(f).val, 0).exc # "none" THEN NoDate
    ELSE AddRel(start, IntOf(f).val, 0).val

\* C23 amended: the rent obligation's next_escalation_date is start +
\* int(escalation_frequency_years) years, a fractional frequency truncated
\* toward zero (2.5 gives 2 years, 0.5 gives the start date itself), and none
\* when the frequency is absent, 0 or NaN or the date leaves the calendar;
\* start is rent_commencement_date or else lease_commencement_date, also when
\* the date is past; the cam obligation starts at lease_commencement_date when
\* there is one and has no next_escalation_date.
C23_NextEscalationWholeYears ==
    /\ \A i \in ObligationsOfType("rent") :
          obligations[i].next_escalation_date = PlusWholeYears(ReqBase, ReqFreq)
    /\ \A i \in ObligationsOfType("cam") :
          /\ obligations[i].next_escalation_date = NoDate
          /\ ReqLeaseComm # NoDate => obligations[i].start_date = ReqLeaseComm

\* C23 witness: a lease with rent commencement 2025-03-18 and frequency 2.5
\* was activated on 2027-06-01: the rent obligation's next_escalation_date is
\* 2027-03-18, already past, and the cam obligation starts at the lease's
\* commencement.
C23_Witness ==
    /\ Activated
    /\ ReqFreq = Frac(5, 2) /\ ReqBase = <<2025, 3, 18>> /\ today = <<2027, 6, 1>>
    /\ \E i \in ObligationsOfType("rent") :
          obligations[i].next_escalation_date = <<2027, 3, 18>>
    /\ \E i \in ObligationsOfType("cam") :
          obligations[i].start_date = <<2025, 2, 1>>

----------------------------------------------------------------------------
(* Termination of generate_alerts, checked under SpecDerive. *)

\* C24: generate_alerts terminates for every extraction and every today: no
\* request is left in the escalation loop, whatever the numeric
\* escalation_frequency_years (whole, fractional between 0 and 1, negative)
\* and however far in the past the base date is.
C24_AlertsTerminate == Served => resp.status # "hang"

----------------------------------------------------------------------------
(* What a failed confirm_and_activate leaves behind, and where the rent_due  *)
(* alerts fall, checked under SpecDerive                                     *)

\* C27: confirm-and-activate is all-or-nothing: when the call ends in an error
\* at any step, no Outlet, Agreement, Obligation or Alert created by the call
\* remains in the store.
C27_AllOrNothing ==
    (Served /\ resp.status = "error")
    => /\ outlets = << >>
       /\ agreements = << >>
       /\ obligations = << >>
       /\ alerts = << >>

\* C30: every rent_due alert has a reference_date inside the lease's validity
\* window: on or after the commencement date (rent_commencement_date or else
\* lease_commencement_date) and on or before lease_expiry_date when known.
C30_RentDueInsideLease ==
    \A i \in AlertsOfType("rent_due") :
        /\ ReqBase # NoDate
           => toordinal(alerts[i].reference_date) >= toordinal(ReqBase)
        /\ ReqExpiry # NoDate
           => toordinal(alerts[i].reference_date) <= toordinal(ReqExpiry)

----------------------------------------------------------------------------
(* Properties of update_payment and the payment generator, checked under   *)
(* SpecPay                                                                 *)

GeneratorStep == budget'.runs = budget.runs + 1
UpdateStep == budget'.updates = budget.updates + 1

\* C25: a generator run never modifies or deletes an existing payment record:
\* every record that existed before the run is in the same place with the
\* same fields (status, paid_amount, due_date, due_amount and the rest) after
\* it.
C25_RunKeepsExistingPeriods ==
    [][GeneratorStep
       => /\ Len(payment_records') >= Len(payment_records)
          /\ \A k \in 1..Len(payment_records) :
                payment_records'[k] = payment_records[k]]_vars

\* a run added records after a record had been marked paid through
\* update_payment
C25_Witness ==
    /\ resp.op = "generate_payment_records"
    /\ resp.inserted > 0
    /\ \E k \in 1..(Len(payment_records) - resp.inserted) :
          /\ payment_records[k].status = "paid"
          /\ payment_records[k].paid_amount = F(100000)

\* C29: every payment record's status is one of overdue, due, upcoming, paid,
\* partially_paid; an update_payment call with a status outside that set or
\* with an unknown payment id is rejected with an error and leaves every
\* payment record unchanged.
C29_StatusesValid ==
    [][/\ \A k \in 1..Len(payment_records') :
             payment_records'[k].status
                \in {"overdue", "due", "upcoming", "paid", "partially_paid"}
       /\ (UpdateStep
            /\ \/ resp'.requested
                      \notin {"overdue", "due", "upcoming", "paid", "partially_paid"}
               \/ resp'.payment_id \notin 1..Len(payment_records))
           => /\ resp'.status = "error"
              /\ payment_records' = payment_records]_vars

\* an update with an invalid status was rejected while a record marked paid
\* by an earlier update was in the table
C29_Witness ==
    /\ resp.op = "update_payment"
    /\ resp.http = 400
    /\ resp.requested = "cancelled"
    /\ \E k \in 1..Len(payment_records) : payment_records[k].status = "paid"

----------------------------------------------------------------------------
(* Properties of interleaved confirm_and_activate calls, checked under     *)
(* SpecConfirm                                                             *)

\* the rows call c derives for table obligations, and for table alerts
RowsOf(c, table) ==
    IF table = "obligations"
    THEN generate_obligations(gen[c].req.extraction, gen[c].agreement_id,
                              gen[c].outlet_id, gen[c].org_id).val
    ELSE generate_alerts(gen[c].req.extraction, gen[c].agreement_id,
                         gen[c].outlet_id, gen[c].org_id, today).val

\* row is one of the rows of call c, and carries the ids of call c
CreatedBy(c, row, table) ==
    /\ row.agreement_id = gen[c].agreement_id
    /\ row.outlet_id = gen[c].outlet_id
    /\ row.org_id = gen[c].org_id
    /\ \E k \in 1..Len(RowsOf(c, table)) : RowsOf(c, table)[k] = row

\* the agreement a row references exists and references the row's outlet and
\* organization, and that outlet belongs to the organization
Attached(row) ==
    /\ row.agreement_id \in 1..Len(agreements)
    /\ row.outlet_id \in 1..Len(outlets)
    /\ agreements[row.agreement_id].outlet_id = row.outlet_id
    /\ agreements[row.agreement_id].org_id = row.org_id
    /\ outlets[row.outlet_id].org_id = row.org_id

\* C26: under every interleaving of confirm-and-activate calls, every
\* obligation and alert carries the agreement_id, outlet_id and org_id of the
\* call that created it, the agreement it references exists and references
\* that same outlet, no two calls share an agreement or an outlet, and every
\* payment record carries the org_id and outlet_id of its obligation.
C26_RecordsScopedToTheirCall ==
    /\ \A i \in 1..Len(obligations) :
          /\ \E c \in 1..2 : CreatedBy(c, obligations[i], "obligations")
          /\ Attached(obligations[i])
    /\ \A i \in 1..Len(alerts) :
          /\ \E c \in 1..2 : CreatedBy(c, alerts[i], "alerts")
          /\ Attached(alerts[i])
    /\ (gen[1].outlet_id # 0 /\ gen[2].outlet_id # 0) => gen[1].outlet_id # gen[2].outlet_id
    /\ (gen[1].agreement_id # 0 /\ gen[2].agreement_id # 0)
       => gen[1].agreement_id # gen[2].agreement_id
    /\ \A c \in 1..2 :
          gen[c].agreement_id # 0
          => /\ agreements[gen[c].agreement_id].outlet_id = gen[c].outlet_id
             /\ agreements[gen[c].agreement_id].org_id = gen[c].org_id
             /\ outlets[gen[c].outlet_id].org_id = gen[c].org_id
    /\ \A k \in 1..Len(payment_records) :
          /\ payment_records[k].obligation_id \in 1..Len(obligations)
          /\ payment_records[k].org_id = obligations[payment_records[k].obligation_id].org_id
          /\ payment_records[k].outlet_id
                = obligations[payment_records[k].obligation_id].outlet_id

\* both calls were activated with their inserts interleaved (the second
\* call's outlet first, the first call's agreement first, the second call's
\* obligation between the first call's two) and payment records were
\* generated for both
C26_Witness ==
    /\ gen[1].pc = "done" /\ gen[2].pc = "done"
    /\ gen[1].outlet_id = 2 /\ gen[1].agreement_id = 1
    /\ Len(obligations) = 3 /\ Len(alerts) = 2
    /\ obligations[1].agreement_id # obligations[2].agreement_id
    /\ obligations[2].agreement_id # obligations[3].agreement_id
    /\ \E j, k \in 1..Len(payment_records) :
          payment_records[j].outlet_id # payment_records[k].outlet_id

\* C28: under every interleaving of confirm-and-activate calls made without
\* an org_id, at most one organization named "GroSpace Demo" exists, and all
\* those calls attach their records to that same organization.
C28_OneDemoOrg ==
    /\ Cardinality({k \in 1..Len(organizations) :
                       organizations[k].name = "GroSpace Demo"}) <= 1
    /\ \A c, d \in 1..2 :
          (/\ gen[c].req.org_id = NoOrg /\ gen[d].req.org_id = NoOrg
           /\ gen[c].org_id # NoOrg /\ gen[d].org_id # NoOrg)
          => gen[c].org_id = gen[d].org_id

============================================================================
